---- MODULE Spec2Model ----
(***************************************************************************)
(* A model of the valorant_rag ingestion and retrieval pipeline:           *)
(*   - the content segmenter   (src/ingest/parse_patch.py),                *)
(*   - the graph materializer and mention linker (src/ingest/load_neo4j.py)*)
(*   - the two-path retriever  (src/rag/retriever.py).                     *)
(* Text is kept as strings; a character is a string of length one.         *)
(***************************************************************************)
EXTENDS Integers, Sequences, FiniteSets, TLC

(***************************************************************************)
(* Strings                                                                 *)
(***************************************************************************)

UpperAlpha == "ABCDEFGHIJKLMNOPQRSTUVWXYZ"
LowerAlpha == "abcdefghijklmnopqrstuvwxyz"
DigitChars == "0123456789"

\* Strings here are ASCII. Two characters stand for two that are not: "^" for
\* the capital I with a dot above (U+0130), the one character whose lower case
\* is two characters long, and "~" for the combining dot above (U+0307).
CapitalIDot == "^"
CombiningDot == "~"

\* The i-th character of s.
Ch(s, i) == SubSeq(s, i, i)

\* Whether the character c occurs in the string alphabet.
InChars(c, alphabet) == \E i \in 1..Len(alphabet) : Ch(alphabet, i) = c

\* Position of the character c in alphabet (c occurs in it).
IndexIn(c, alphabet) == CHOOSE i \in 1..Len(alphabet) : Ch(alphabet, i) = c

IsDigit(c) == InChars(c, DigitChars)
IsWordCh(c) ==
    InChars(c, LowerAlpha) \/ InChars(c, UpperAlpha) \/ IsDigit(c) \/ c \in {"_", CapitalIDot}
IsSpaceCh(c) == c \in {" ", "\n", "\t"}

\* The digit character's value.
DigitVal(c) == IndexIn(c, DigitChars) - 1

LowerCh(c) ==
    IF c = CapitalIDot THEN "i" \o CombiningDot
    ELSE IF InChars(c, UpperAlpha) THEN Ch(LowerAlpha, IndexIn(c, UpperAlpha)) ELSE c

RECURSIVE lower(_)
\* str.lower() and Cypher's toLower().
lower(s) == IF Len(s) = 0 THEN "" ELSE LowerCh(Ch(s, 1)) \o lower(SubSeq(s, 2, Len(s)))

RECURSIVE lstrip(_)
lstrip(s) ==
    IF Len(s) > 0 /\ IsSpaceCh(Ch(s, 1)) THEN lstrip(SubSeq(s, 2, Len(s))) ELSE s

RECURSIVE rstrip(_)
rstrip(s) ==
    IF Len(s) > 0 /\ IsSpaceCh(Ch(s, Len(s))) THEN rstrip(SubSeq(s, 1, Len(s) - 1)) ELSE s

\* str.strip().
strip(s) == rstrip(lstrip(s))

\* needle in hay (Python), hay CONTAINS needle (Cypher).
Contains(hay, needle) ==
    \E i \in 1..(Len(hay) - Len(needle) + 1) : SubSeq(hay, i, i + Len(needle) - 1) = needle

\* str.startswith().
StartsWith(s, prefix) == Len(prefix) <= Len(s) /\ SubSeq(s, 1, Len(prefix)) = prefix

RECURSIVE CollapseSpaces(_, _)
\* s with every run of whitespace replaced by one space; inSpace: the previous
\* character was whitespace.
CollapseSpaces(s, inSpace) ==
    IF Len(s) = 0 THEN ""
    ELSE IF IsSpaceCh(Ch(s, 1))
         THEN (IF inSpace THEN "" ELSE " ") \o CollapseSpaces(SubSeq(s, 2, Len(s)), TRUE)
         ELSE Ch(s, 1) \o CollapseSpaces(SubSeq(s, 2, Len(s)), FALSE)

\* " ".join(value.split())
normalize_space(value) == CollapseSpaces(strip(value), FALSE)

RECURSIVE DecStr(_)
\* str(n) for a natural number n.
DecStr(n) ==
    IF n < 10 THEN Ch(DigitChars, n + 1)
    ELSE DecStr(n \div 10) \o Ch(DigitChars, (n % 10) + 1)

\* f"{n:02d}"
Dec02(n) == IF n < 10 THEN "0" \o DecStr(n) ELSE DecStr(n)

RECURSIVE SubNonAlnum(_, _)
\* re.sub(r"[^a-z0-9]+", " ", s): inRun: the previous character was replaced.
SubNonAlnum(s, inRun) ==
    IF Len(s) = 0 THEN ""
    ELSE IF InChars(Ch(s, 1), LowerAlpha) \/ IsDigit(Ch(s, 1))
         THEN Ch(s, 1) \o SubNonAlnum(SubSeq(s, 2, Len(s)), FALSE)
         ELSE (IF inRun THEN "" ELSE " ") \o SubNonAlnum(SubSeq(s, 2, Len(s)), TRUE)

normalize_for_match(value) == strip(SubNonAlnum(lower(value), FALSE))


(***************************************************************************)
(* Segmenter post-processing: id assignment (parse_patch.py)               *)
(***************************************************************************)

\* The changes of one retained section: ids "{sectionId}-c{m}", order m.
MakeChanges(section_id, section_name, texts, source_url) ==
    [j \in 1..Len(texts) |->
        [id |-> section_id \o "-c" \o DecStr(j - 1),
         text |-> texts[j],
         section_name |-> section_name,
         source_url |-> source_url,
         order |-> j - 1]]

RECURSIVE BuildSectionsByIndex(_, _, _, _, _)
\* Mutant: the id of a section is made of its place among the raw sections
\* (f"{patch_id}-s{section_index}").
BuildSectionsByIndex(patch_id, raw_sections, source_url, i, sections) ==
    IF i > Len(raw_sections) THEN sections
    ELSE IF Len(raw_sections[i].changes) = 0
         THEN BuildSectionsByIndex(patch_id, raw_sections, source_url, i + 1, sections)
         ELSE LET section_id == patch_id \o "-s" \o DecStr(i - 1)
              IN  BuildSectionsByIndex(patch_id, raw_sections, source_url, i + 1,
                     Append(sections,
                        [id |-> section_id,
                         name |-> raw_sections[i].name,
                         order |-> i - 1,
                         changes |-> MakeChanges(section_id, raw_sections[i].name,
                                                 raw_sections[i].changes, source_url)]))

RECURSIVE BuildSectionsDropGeneral(_, _, _, _, _)
\* A loop that skips the first raw section, with changes or without.
BuildSectionsDropGeneral(patch_id, raw_sections, source_url, i, sections) ==
    IF i > Len(raw_sections) THEN sections
    ELSE IF Len(raw_sections[i].changes) = 0 \/ i = 1
         THEN BuildSectionsDropGeneral(patch_id, raw_sections, source_url, i + 1, sections)
         ELSE LET section_id == patch_id \o "-s" \o DecStr(Len(sections))
              IN  BuildSectionsDropGeneral(patch_id, raw_sections, source_url, i + 1,
                     Append(sections,
                        [id |-> section_id,
                         name |-> raw_sections[i].name,
                         order |-> i - 1,
                         changes |-> MakeChanges(section_id, raw_sections[i].name,
                                                 raw_sections[i].changes, source_url)]))

RECURSIVE BuildSections(_, _, _, _, _)
\* The loop over enumerate(raw_sections): a section without changes is skipped,
\* a kept one gets the id "{patchId}-s{len(sections)}" and order section_index.
BuildSections(patch_id, raw_sections, source_url, i, sections) ==
    IF i > Len(raw_sections) THEN sections
    ELSE IF Len(raw_sections[i].changes) = 0
         THEN BuildSections(patch_id, raw_sections, source_url, i + 1, sections)
         ELSE LET section_id == patch_id \o "-s" \o DecStr(Len(sections))
              IN  BuildSections(patch_id, raw_sections, source_url, i + 1,
                     Append(sections,
                        [id |-> section_id,
                         name |-> raw_sections[i].name,
                         order |-> i - 1,
                         changes |-> MakeChanges(section_id, raw_sections[i].name,
                                                 raw_sections[i].changes, source_url)]))

\* The returned document.
BuildDocument(patch_id, title, source_url, published_at, raw_sections) ==
    [patch |-> [id |-> patch_id, title |-> title, url |-> source_url,
                published_at |-> published_at],
     sections |-> BuildSections(patch_id, raw_sections, source_url, 1, << >>)]

(***************************************************************************)
(* The segmenter (parse_patch.py) from the events of the tokenizer on: a   *)
(* ParsedHTML is [title, metas, events], an event [tag, attrs, text,       *)
(* parents], a meta [property, content].                                   *)
(***************************************************************************)

\* Python's None where a string may stand: a value no text of the inputs is.
None == "<None>"

\* Whether s is a string that is true in a condition.
Truthy(s) == s # None /\ s # ""

\* tag in event.parents
InParents(tag, parents) == \E i \in 1..Len(parents) : parents[i] = tag

\* The events of seq, from the i-th on, that have tag among their parents, in
\* their order.
RECURSIVE EventsUnder(_, _, _)
EventsUnder(tag, seq, i) ==
    IF i > Len(seq) THEN << >>
    ELSE (IF InParents(tag, seq[i].parents) THEN << seq[i] >> ELSE << >>)
         \o EventsUnder(tag, seq, i + 1)

scoped_events(parsed) ==
    IF \E i \in 1..Len(parsed.events) : InParents("article", parsed.events[i].parents)
    THEN EventsUnder("article", parsed.events, 1)
    ELSE IF \E i \in 1..Len(parsed.events) : InParents("main", parsed.events[i].parents)
         THEN EventsUnder("main", parsed.events, 1)
         ELSE parsed.events

\* extract_meta(parsed, "property", value): the normalized content of the first
\* meta of that property whose content is not empty.
extract_meta(parsed, value) ==
    LET hits == {i \in 1..Len(parsed.metas) :
                    /\ parsed.metas[i].property = value
                    /\ normalize_space(parsed.metas[i].content) # ""}
    IN  IF hits = {} THEN None
        ELSE normalize_space(parsed.metas[CHOOSE i \in hits : \A j \in hits : i <= j].content)

extract_title(parsed, events) ==
    LET og_title == extract_meta(parsed, "og:title")
        h1s == {i \in 1..Len(events) : events[i].tag = "h1" /\ events[i].text # ""}
    IN  IF Truthy(og_title) THEN og_title
        ELSE IF h1s # {} THEN events[CHOOSE i \in h1s : \A j \in h1s : i <= j].text
        ELSE IF Truthy(parsed.title) THEN parsed.title
        ELSE "Valorant Patch Notes"

\* The first time event says something: its datetime attribute if it has one,
\* else its text.
extract_published_at(parsed, events) ==
    LET published == extract_meta(parsed, "article:published_time")
        times == {i \in 1..Len(events) :
                    /\ events[i].tag = "time"
                    /\ (events[i].attrs.datetime # "" \/ events[i].text # "")}
        first == events[CHOOSE i \in times : \A j \in times : i <= j]
    IN  IF Truthy(published) THEN published
        ELSE IF times = {} THEN None
        ELSE IF first.attrs.datetime # "" THEN normalize_space(first.attrs.datetime)
        ELSE first.text

\* A word character stands at position i of s.
WordAt(s, i) == i >= 1 /\ i <= Len(s) /\ IsWordCh(Ch(s, i))

\* \b before position i
Boundary(s, i) == WordAt(s, i - 1) # WordAt(s, i)

\* \d{n} at position i
DigitsAt(s, i, n) == i + n - 1 <= Len(s) /\ \A j \in i..(i + n - 1) : IsDigit(Ch(s, j))

\* PATCH_ID_RE matches at position i with groups of a and b digits.
PatchIdMatch(s, i, a, b) ==
    /\ i + a <= Len(s)
    /\ Ch(s, i + a) \in {".", "-"}
    /\ DigitsAt(s, i, a)
    /\ DigitsAt(s, i + a + 1, b)
    /\ Boundary(s, i)
    /\ Boundary(s, i + a + 1 + b)

RECURSIVE ParseInt(_)
\* int(s) for a string of digits
ParseInt(s) ==
    IF Len(s) = 0 THEN 0
    ELSE 10 * ParseInt(SubSeq(s, 1, Len(s) - 1)) + DigitVal(Ch(s, Len(s)))

\* PATCH_ID_RE.search(value) and the id made of its groups: the leftmost match,
\* each group as long as it can be, the first group first.
PatchIdIn(value) ==
    LET found == {m \in (1..Len(value)) \X {1, 2} \X {1, 2} :
                    PatchIdMatch(value, m[1], m[2], m[3])}
        rank(t) == 4 * t[1] + 2 * (2 - t[2]) + (2 - t[3])
        m == CHOOSE x \in found : \A y \in found : rank(x) <= rank(y)
        major == ParseInt(SubSeq(value, m[1], m[1] + m[2] - 1))
        minor == ParseInt(SubSeq(value, m[1] + m[2] + 1, m[1] + m[2] + m[3]))
    IN  IF found = {} THEN None ELSE DecStr(major) \o "." \o Dec02(minor)

\* find_patch_id(title, source_url)
find_patch_id(title, source_url) ==
    IF PatchIdIn(title) # None THEN PatchIdIn(title) ELSE PatchIdIn(source_url)

NOISE_HEADINGS == {"share", "copy link", "riot games", "news", "play now", "related articles"}
NOISE_CHANGES == {"share", "copy link", "read more", "learn more"}

should_keep_heading(text) ==
    LET normalized == strip(lower(text))
    IN  normalized # "" /\ normalized \notin NOISE_HEADINGS

\* \d{4}-\d{2}-\d{2}t\d{2}:\d{2}, d standing for a digit
TimestampPattern == "dddd-dd-ddtdd:dd"

\* The pattern matches s at position i.
PatternAt(s, i, pattern) ==
    /\ i + Len(pattern) - 1 <= Len(s)
    /\ \A j \in 1..Len(pattern) :
          IF Ch(pattern, j) = "d" THEN IsDigit(Ch(s, i + j - 1))
          ELSE Ch(s, i + j - 1) = Ch(pattern, j)

\* The lengths a change is kept between.
MinChangeLen == 12
MaxChangeLen == 500

should_keep_change(text) ==
    LET normalized == strip(lower(text))
    IN  /\ normalized # ""
        /\ normalized \notin NOISE_CHANGES
        /\ ~StartsWith(normalized, "related articles")
        /\ ~(Contains(normalized, "game updates") /\ Contains(normalized, "patch notes"))
        /\ ~\E i \in 1..Len(normalized) : PatternAt(normalized, i, TimestampPattern)
        /\ Len(normalized) >= MinChangeLen
        /\ Len(normalized) <= MaxChangeLen

\* Mutant: the key is the text alone, whatever the section.
DedupeKeyTextOnly(section_name, text) == << "", text >>

\* dedupe_key = (current_section["name"], text)
DedupeKey(section_name, text) == << section_name, text >>

RECURSIVE Walk(_, _, _, _)
\* The loop over the events from event i on: raw_sections so far (the last one
\* is current_section) and the keys seen so far.
Walk(events, i, raw_sections, seen_changes) ==
    IF i > Len(events) THEN raw_sections
    ELSE LET event == events[i]
             text == normalize_space(event.text)
             current == raw_sections[Len(raw_sections)]
             dedupe_key == DedupeKey(current.name, text)
         IN  IF event.tag \notin {"h2", "h3", "li", "p"} \/ text = ""
             THEN Walk(events, i + 1, raw_sections, seen_changes)
             ELSE IF event.tag \in {"h2", "h3"}
             THEN IF strip(lower(text)) = "related articles" THEN raw_sections
                  ELSE IF should_keep_heading(text)
                  THEN Walk(events, i + 1,
                            Append(raw_sections, [name |-> text, changes |-> << >>]),
                            seen_changes)
                  ELSE Walk(events, i + 1, raw_sections, seen_changes)
             ELSE IF event.tag = "p" /\ InParents("li", event.parents)
             THEN Walk(events, i + 1, raw_sections, seen_changes)
             ELSE IF should_keep_change(text) /\ dedupe_key \notin seen_changes
             THEN Walk(events, i + 1,
                       [raw_sections EXCEPT ![Len(raw_sections)].changes =
                                                Append(current.changes, text)],
                       seen_changes \cup {dedupe_key})
             ELSE Walk(events, i + 1, raw_sections, seen_changes)

\* parse_patch_notes_html from parse_html's result on.
parse_patch_notes_html(parsed, source_url) ==
    LET events == scoped_events(parsed)
        title == extract_title(parsed, events)
        found == find_patch_id(title, source_url)
        patch_id == IF found = None THEN "latest" ELSE found
        published_at == extract_published_at(parsed, events)
        raw_sections == Walk(events, 1, << [name |-> "General", changes |-> << >>] >>, {})
    IN  BuildDocument(patch_id, title, source_url, published_at, raw_sections)

(***************************************************************************)
(* Mention detection (load_neo4j.py)                                       *)
(***************************************************************************)

\* aliases = agent.get("aliases") or [agent.get("name")]
AliasesOf(agent) == IF Len(agent.aliases) > 0 THEN agent.aliases ELSE << agent.name >>

\* Whether some alias of the agent, normalized and at least 3 long, occurs
\* anywhere in the normalized text.
AgentMentionedAnywhere(normalized_text, agent) ==
    \E i \in 1..Len(AliasesOf(agent)) :
        LET alias_normalized == normalize_for_match(AliasesOf(agent)[i])
        IN  /\ Len(alias_normalized) >= 3
            /\ Contains(normalized_text, alias_normalized)

\* Whether some alias of the agent, normalized and at least 3 long, occurs
\* space-delimited in the padded normalized text.
AgentMentioned(normalized_text, agent) ==
    \E i \in 1..Len(AliasesOf(agent)) :
        LET alias_normalized == normalize_for_match(AliasesOf(agent)[i])
        IN  /\ Len(alias_normalized) >= 3
            /\ Contains(normalized_text, " " \o alias_normalized \o " ")

\* The uuids of the agents the text mentions (sorted(set(...)): each uuid once).
detect_agent_mentions(change_text, agents) ==
    LET normalized_text == " " \o normalize_for_match(change_text) \o " "
    IN  IF strip(normalized_text) = "" THEN {}
        ELSE {agents[i].uuid : i \in {n \in 1..Len(agents) :
                                        /\ agents[n].uuid # ""
                                        /\ AgentMentioned(normalized_text, agents[n])}}

(***************************************************************************)
(* The graph store: nodes keyed by their natural key (every node the code  *)
(* creates is created by MERGE on that key), relationships as pairs (every *)
(* relationship is created by MERGE).                                      *)
(***************************************************************************)

NoNodes == [k \in {} |-> k]

EmptyStore ==
    [patches |-> NoNodes, sections |-> NoNodes, changes |-> NoNodes, agents |-> NoNodes,
     hasSection |-> {}, hasChange |-> {}, mentions |-> {}]

Put(f, k, v) == [n \in DOMAIN f \cup {k} |-> IF n = k THEN v ELSE f[n]]
Drop(f, ks) == [n \in DOMAIN f \ ks |-> f[n]]

\* MATCH (n) DETACH DELETE n
WipeStmt(g) == EmptyStore

RECURSIVE MergeAgents(_, _, _)
MergeAgents(nodes, rows, i) ==
    IF i > Len(rows) THEN nodes
    ELSE MergeAgents(Put(nodes, rows[i].uuid,
                         [name |-> rows[i].name, role |-> rows[i].role,
                          icon_url |-> rows[i].icon_url, abilities |-> rows[i].abilities,
                          aliases |-> rows[i].aliases]),
                     rows, i + 1)

\* Mutant: the agent nodes are replaced by the roster's, not merged with them.
UpsertAgentsReplace(g, rows) ==
    [g EXCEPT !.agents = MergeAgents(NoNodes, rows, 1),
              !.mentions = {e \in g.mentions :
                               e[2] \in DOMAIN MergeAgents(NoNodes, rows, 1)}]

\* UNWIND $rows AS row MERGE (a:Agent {uuid: row.uuid}) SET ...
UpsertAgentsStmt(g, rows) == [g EXCEPT !.agents = MergeAgents(g.agents, rows, 1)]

\* MERGE (p:Patch {id: $id}) SET ...
UpsertPatchStmt(g, patch) ==
    [g EXCEPT !.patches = Put(g.patches, patch.id,
                              [title |-> patch.title, url |-> patch.url,
                               published_at |-> patch.published_at])]

\* The sections a patch has, and the changes those sections have.
SectionsOf(g, patch_id) == {e[2] : e \in {h \in g.hasSection : h[1] = patch_id}}
ChangesOf(g, patch_id) ==
    {e[2] : e \in {h \in g.hasChange : h[1] \in SectionsOf(g, patch_id)}}

\* Mutant: the clear also deletes the agents its changes mention
\* (DETACH DELETE c, s, a).
ClearDeletesAgents(g, patch_id) ==
    LET S == SectionsOf(g, patch_id)
        C == ChangesOf(g, patch_id)
        A == {e[2] : e \in {m \in g.mentions : m[1] \in C}}
    IN  [g EXCEPT !.sections = Drop(g.sections, S),
                  !.changes = Drop(g.changes, C),
                  !.agents = Drop(g.agents, A),
                  !.hasSection = {e \in g.hasSection : e[2] \notin S},
                  !.hasChange = {e \in g.hasChange : e[1] \notin S /\ e[2] \notin C},
                  !.mentions = {e \in g.mentions : e[1] \notin C /\ e[2] \notin A}]

\* Mutant: MATCH instead of OPTIONAL MATCH for the changes, so that a section
\* without changes is not matched and stays.
ClearOnlySectionsWithChanges(g, patch_id) ==
    LET S == {s \in SectionsOf(g, patch_id) : \E e \in g.hasChange : e[1] = s}
        C == ChangesOf(g, patch_id)
    IN  [g EXCEPT !.sections = Drop(g.sections, S),
                  !.changes = Drop(g.changes, C),
                  !.hasSection = {e \in g.hasSection : e[2] \notin S},
                  !.hasChange = {e \in g.hasChange : e[1] \notin S /\ e[2] \notin C},
                  !.mentions = {e \in g.mentions : e[1] \notin C}]

\* Mutant: only the sections are deleted (DETACH DELETE s); their changes stay.
ClearLeavesChanges(g, patch_id) ==
    LET S == SectionsOf(g, patch_id)
    IN  [g EXCEPT !.sections = Drop(g.sections, S),
                  !.hasSection = {e \in g.hasSection : e[2] \notin S},
                  !.hasChange = {e \in g.hasChange : e[1] \notin S}]

\* Mutant: the clear matches the sections of every patch (MATCH (p:Patch)
\* without the id).
ClearEveryPatch(g, patch_id) ==
    LET S == {e[2] : e \in g.hasSection}
        C == {e[2] : e \in {h \in g.hasChange : h[1] \in S}}
    IN  [g EXCEPT !.sections = Drop(g.sections, S),
                  !.changes = Drop(g.changes, C),
                  !.hasSection = {e \in g.hasSection : e[2] \notin S},
                  !.hasChange = {e \in g.hasChange : e[1] \notin S /\ e[2] \notin C},
                  !.mentions = {e \in g.mentions : e[1] \notin C}]

\* Mutant: the clear deletes the matched patch node too (DETACH DELETE c, s, p).
ClearDeletesPatch(g, patch_id) ==
    LET S == SectionsOf(g, patch_id)
        C == ChangesOf(g, patch_id)
    IN  [g EXCEPT !.patches = IF S = {} THEN g.patches ELSE Drop(g.patches, {patch_id}),
                  !.sections = Drop(g.sections, S),
                  !.changes = Drop(g.changes, C),
                  !.hasSection = {e \in g.hasSection : e[2] \notin S},
                  !.hasChange = {e \in g.hasChange : e[1] \notin S /\ e[2] \notin C},
                  !.mentions = {e \in g.mentions : e[1] \notin C}]

\* MATCH (p)-[:HAS_SECTION]->(s) OPTIONAL MATCH (s)-[:HAS_CHANGE]->(c)
\* OPTIONAL MATCH (c)-[r:MENTIONS_AGENT]->(:Agent) DELETE r DETACH DELETE c, s
ClearPatchSubgraphStmt(g, patch_id) ==
    LET S == SectionsOf(g, patch_id)
        C == ChangesOf(g, patch_id)
    IN  [g EXCEPT !.sections = Drop(g.sections, S),
                  !.changes = Drop(g.changes, C),
                  !.hasSection = {e \in g.hasSection : e[2] \notin S},
                  !.hasChange = {e \in g.hasChange : e[1] \notin S /\ e[2] \notin C},
                  !.mentions = {e \in g.mentions : e[1] \notin C}]

\* MATCH (p:Patch {id}) MERGE (s:Section {id}) SET ... MERGE (p)-[:HAS_SECTION]->(s)
SectionStmt(g, patch_id, section, order) ==
    IF patch_id \notin DOMAIN g.patches THEN g
    ELSE [g EXCEPT !.sections = Put(g.sections, section.id,
                                    [name |-> section.name, order |-> order,
                                     patch_id |-> patch_id]),
                   !.hasSection = g.hasSection \cup {<<patch_id, section.id>>}]

RECURSIVE MergeChanges(_, _, _)
MergeChanges(nodes, changes, i) ==
    IF i > Len(changes) THEN nodes
    ELSE MergeChanges(Put(nodes, changes[i].id,
                          [text |-> changes[i].text,
                           section_name |-> changes[i].section_name,
                           source_url |-> changes[i].source_url,
                           order |-> changes[i].order]),
                      changes, i + 1)

\* MATCH (s:Section {id}) UNWIND $changes AS change MERGE (c:Change {id}) SET ...
\* MERGE (s)-[:HAS_CHANGE]->(c)
ChangesStmt(g, section_id, changes) ==
    IF section_id \notin DOMAIN g.sections THEN g
    ELSE [g EXCEPT !.changes = MergeChanges(g.changes, changes, 1),
                   !.hasChange = g.hasChange \cup
                        {<<section_id, changes[i].id>> : i \in 1..Len(changes)}]

\* MATCH (p)-[:HAS_SECTION]->()-[:HAS_CHANGE]->(c)-[r:MENTIONS_AGENT]->() DELETE r
RelinkDeleteStmt(g, patch_id) ==
    [g EXCEPT !.mentions = {e \in g.mentions : e[1] \notin ChangesOf(g, patch_id)}]

\* MATCH (p)-[:HAS_SECTION]->()-[:HAS_CHANGE]->(c) RETURN c.id, c.text: one row
\* for each path. A row is kept with the uuids detect_agent_mentions finds in its
\* text (the loop calls it on the row's text and the roster, both fixed by now).
RelinkRows(g, patch_id, agents) ==
    {[section |-> e[1], change_id |-> e[2], text |-> g.changes[e[2]].text,
      uuids |-> detect_agent_mentions(g.changes[e[2]].text, agents)] :
        e \in {h \in g.hasChange : h[1] \in SectionsOf(g, patch_id)}}

\* The relationships MATCH (c:Change {id}) UNWIND uuids MATCH (a:Agent {uuid})
\* MERGE (c)-[:MENTIONS_AGENT]->(a) asks for.
LinkEdges(g, change_id, agent_uuids) ==
    IF change_id \notin DOMAIN g.changes THEN {}
    ELSE {<<change_id, u>> : u \in agent_uuids \cap DOMAIN g.agents}

LinkStmt(g, change_id, agent_uuids) ==
    [g EXCEPT !.mentions = g.mentions \cup LinkEdges(g, change_id, agent_uuids)]

(***************************************************************************)
(* load_to_neo4j run to its end without an error, as one function of the    *)
(* store: the statements above in the order the code sends them.           *)
(***************************************************************************)

RECURSIVE WriteSections(_, _, _)
\* upsert_patch's loop over the sections, from section i on.
WriteSections(g, doc, i) ==
    IF i > Len(doc.sections) THEN g
    ELSE LET section == doc.sections[i]
             withSection == SectionStmt(g, doc.patch.id, section, section.order)
         IN  WriteSections(IF Len(section.changes) = 0 THEN withSection
                           ELSE ChangesStmt(withSection, section.id, section.changes),
                           doc, i + 1)

RECURSIVE LinkRows(_, _)
\* relink_patch_agent_mentions' loop over the records.
LinkRows(g, rows) ==
    IF rows = {} THEN g
    ELSE LET r == CHOOSE row \in rows : TRUE
         IN  LinkRows(IF r.uuids = {} THEN g ELSE LinkStmt(g, r.change_id, r.uuids),
                      rows \ {r})

RelinkAll(g, patch_id, agents) ==
    IF Len(agents) = 0 THEN g
    ELSE LET cleared == RelinkDeleteStmt(g, patch_id)
         IN  LinkRows(cleared, RelinkRows(cleared, patch_id, agents))

Materialize(g, doc, agents, wipe) ==
    LET wiped == IF wipe THEN WipeStmt(g) ELSE g
        withAgents == IF Len(agents) = 0 THEN wiped ELSE UpsertAgentsStmt(wiped, agents)
        cleared == ClearPatchSubgraphStmt(UpsertPatchStmt(withAgents, doc.patch),
                                          doc.patch.id)
    IN  RelinkAll(WriteSections(cleared, doc, 1), doc.patch.id, agents)

\* What the store holds of one patch: its node, its sections and changes, and
\* the relationships among them and to agents.
PatchSubgraph(g, patch_id) ==
    LET S == SectionsOf(g, patch_id)
        C == ChangesOf(g, patch_id)
    IN  [patch |-> {<<n, g.patches[n]>> : n \in DOMAIN g.patches \cap {patch_id}},
         sections |-> {<<n, g.sections[n]>> : n \in S \cap DOMAIN g.sections},
         changes |-> {<<n, g.changes[n]>> : n \in C \cap DOMAIN g.changes},
         hasSection |-> {e \in g.hasSection : e[1] = patch_id},
         hasChange |-> {e \in g.hasChange : e[1] \in S},
         mentions |-> {e \in g.mentions : e[1] \in C}]

(***************************************************************************)
(* The queries of the retriever (retriever.py), each as the set of the     *)
(* results the store may give: rows in the order asked for, rows the order *)
(* does not tell apart in any order.                                       *)
(***************************************************************************)

Min(a, b) == IF a < b THEN a ELSE b

\* The ways to list the rows of S, each once.
Enumerations(S) ==
    {f \in [1..Cardinality(S) -> S] :
        \A i, j \in 1..Cardinality(S) : i # j => f[i] # f[j]}

\* The pair a comes before the pair b: by the first number, then by the second.
PairBefore(a, b) == a[1] < b[1] \/ (a[1] = b[1] /\ a[2] < b[2])

\* ORDER BY: the listings in which no row stands behind one its key puts it
\* before; key gives each row its pair of numbers.
Ordered(S, key) ==
    {f \in Enumerations(S) :
        \A i, j \in 1..Cardinality(S) : i < j => ~PairBefore(key[f[j]], key[f[i]])}

\* LIMIT n
Limit(rows, n) == [i \in 1..Min(n, Len(rows)) |-> rows[i]]

\* LIMIT 4 of _resolve_agents
ResolveLimit == 4

\* The agents one of whose stored aliases occurs, lowercased, in the lowercased
\* query. upsert_agents sets the aliases property of every agent, so coalesce
\* never takes [a.name].
ResolveMatches(g, query) ==
    {u \in DOMAIN g.agents :
        \E i \in 1..Len(g.agents[u].aliases) :
            Contains(lower(query), lower(g.agents[u].aliases[i]))}

\* RETURN DISTINCT a.uuid AS uuid, a.name AS name ORDER BY size(name) DESC LIMIT 4
resolve_agents(g, query) ==
    LET rows == {[uuid |-> u, name |-> g.agents[u].name] : u \in ResolveMatches(g, query)}
        key == [row \in rows |-> << 0 - Len(row.name), 0 >>]
    IN  {Limit(f, ResolveLimit) : f \in Ordered(rows, key)}

\* MATCH (p:Patch)-[:HAS_SECTION]->(s:Section)-[:HAS_CHANGE]->(c:Change), for
\* the changes in C.
PathsTo(g, C) ==
    {[p |-> x[1][1], s |-> x[1][2], c |-> x[2][2]] :
        x \in {y \in g.hasSection \X g.hasChange :
                 y[1][2] = y[2][1] /\ y[2][2] \in C}}

\* ORDER BY section order ASC, change order ASC: the key of a path
PathKey(g, path) == << g.sections[path.s].order, g.changes[path.c].order >>
PathKeys(g, paths) == [path \in paths |-> PathKey(g, path)]
PathBefore(g, a, b) == PairBefore(PathKey(g, a), PathKey(g, b))

\* collect(DISTINCT a.name) over OPTIONAL MATCH (c)-[:MENTIONS_AGENT]->(a:Agent),
\* as _record_to_change keeps it: the names that are not empty.
MentionedNames(g, c) ==
    {g.agents[e[2]].name : e \in {m \in g.mentions : m[1] = c}} \ {""}

\* The row of a path and _record_to_change of it.
record_to_change(g, path, score) ==
    [change_id |-> path.c, patch_id |-> path.p,
     section_name |-> g.sections[path.s].name, text |-> g.changes[path.c].text,
     source_url |-> g.changes[path.c].source_url, score |-> score,
     agents |-> MentionedNames(g, path.c)]

\* The rows of the listings of the paths, cut to k.
Rows(g, listings, score, k) ==
    {Limit([i \in DOMAIN f |-> record_to_change(g, f[i], score)], k) : f \in listings}

\* The changes that mention one of the agents, 10.0 each, in any order.
query_by_agents_unordered(g, agent_uuids, k) ==
    LET C == {e[1] : e \in {m \in g.mentions : m[2] \in agent_uuids}}
    IN  Rows(g, Enumerations(PathsTo(g, C)), "10.0", k)

\* _query_by_agents: the changes that mention one of the agents, 10.0 each.
query_by_agents(g, agent_uuids, k) ==
    LET C == {e[1] : e \in {m \in g.mentions : m[2] \in agent_uuids}}
    IN  Rows(g, Ordered(PathsTo(g, C), PathKeys(g, PathsTo(g, C))), "10.0", k)

\* The full-text query where the index is there: the hits and their scores are
\* the index's, which the sources do not fix: any changes, in any order.
query_by_fulltext(g, k) ==
    UNION {Rows(g, Enumerations(PathsTo(g, H)), "native", k) :
             H \in SUBSET DOMAIN g.changes}

\* WHERE toLower(c.text) CONTAINS toLower($search_text)
\*    OR toLower(s.name) CONTAINS toLower($search_text)
FallbackMatches(g, query) ==
    {path \in PathsTo(g, DOMAIN g.changes) :
        \/ Contains(lower(g.changes[path.c].text), lower(query))
        \/ Contains(lower(g.sections[path.s].name), lower(query))}

\* Mutant: the fallback compares the text and the name as they are stored.
FallbackCaseSensitive(g, query, k) ==
    LET matches == {path \in PathsTo(g, DOMAIN g.changes) :
                      \/ Contains(g.changes[path.c].text, query)
                      \/ Contains(g.sections[path.s].name, query)}
    IN  Rows(g, Ordered(matches, PathKeys(g, matches)), "1.0", k)

\* The fallback query of _query_by_fulltext, 1.0 each.
query_fallback(g, query, k) ==
    LET matches == FallbackMatches(g, query)
    IN  Rows(g, Ordered(matches, PathKeys(g, matches)), "1.0", k)

(***************************************************************************)
(* Inputs of the materializer: segmented documents and agent rosters       *)
(***************************************************************************)

UrlA == "https://playvalorant.com/news/valorant-patch-notes-12-02/"
UrlB == "https://playvalorant.com/news/valorant-patch-notes-12-03/"

\* Patch 12.02 as first published: two sections, three changes.
DocA1 ==
    BuildDocument("12.02", "VALORANT Patch Notes 12.02", UrlA, "2026-02-03",
        << [name |-> "General", changes |-> << >>],
           [name |-> "Agent Updates",
            changes |-> << "Reyna's Leer duration reduced",
                           "Harbor Cove shield health lowered" >>],
           [name |-> "Bug Fixes", changes |-> << "Fixed a crash in the shop" >>] >>)

\* Patch 12.02 as revised: one section, one change, under the ids of DocA1.
DocA2 ==
    BuildDocument("12.02", "VALORANT Patch Notes 12.02", UrlA, "2026-02-04",
        << [name |-> "General", changes |-> << >>],
           [name |-> "Agent Updates",
            changes |-> << "HARBOR: High Tide cooldown up" >>] >>)

\* Another patch.
DocB ==
    BuildDocument("12.03", "VALORANT Patch Notes 12.03", UrlB, "",
        << [name |-> "General", changes |-> << >>],
           [name |-> "Map Updates", changes |-> << "Reyna mural added near Harbor on Pearl" >>] >>)

Docs == {DocA1, DocA2, DocB}
PatchIds == {d.patch.id : d \in Docs}

Reyna ==
    [uuid |-> "u-reyna", name |-> "Reyna", role |-> "Duelist", icon_url |-> "",
     abilities |-> << "Dismiss", "Leer" >>, aliases |-> << "Dismiss", "Leer", "Reyna" >>]

Harbor ==
    [uuid |-> "u-harbor", name |-> "Harbor", role |-> "Controller", icon_url |-> "",
     abilities |-> << "Cove", "High Tide" >>, aliases |-> << "Cove", "Harbor", "High Tide" >>]

\* agents_doc absent or without agents, one agent, two agents.
Rosters == { << >>, << Reyna >>, << Harbor, Reyna >> }

(***************************************************************************)
(* State                                                                   *)
(***************************************************************************)

VARIABLES
    store,   \* the graph store
    ld,      \* the materializer call in progress (load_to_neo4j, or a call of
             \* relink_patch_agent_mentions on its own) or the last one ended
    runs,    \* calls started so far
    rt,      \* the GraphRetriever and its retrieve call in progress or last ended
    ftIndex, \* whether the store has the full-text index change_text_ft
    parser,  \* a call of parse_patch_notes_html and a second one on the same input
    call     \* a call of another function of the ingest: its input and its output

vars == <<store, ld, runs, rt, ftIndex, parser, call>>

\* Calls of the materializer in one behaviour.
MaxRuns == 2

NoDoc == [patch |-> [id |-> "", title |-> "", url |-> "", published_at |-> ""],
          sections |-> << >>]
NoResult == [sections |-> 0, changes |-> 0, agents |-> 0, agent_links |-> 0]
NoPrev == [pc |-> "idle", mode |-> "none", doc |-> NoDoc, agents |-> << >>,
           result |-> NoResult]

IdleLd ==
    [mode |-> "none", pc |-> "idle", doc |-> NoDoc, patch_id |-> "", agents |-> << >>,
     wipe |-> FALSE, driver |-> "none", session |-> "none",
     si |-> 0, section_count |-> 0, change_count |-> 0, records |-> {},
     links_created |-> 0, created |-> 0, error |-> FALSE, result |-> NoResult,
     prev |-> NoPrev, store0 |-> EmptyStore]

Ended == {"idle", "returned", "raised"}

\* The positions at which the next step is a statement sent to the store.
StmtPcs == {"wipe", "schema", "agents", "patch", "clear", "section", "changes",
            "relink_delete", "relink_read", "relink_link"}

\* No retriever yet. `caught` is the error the except clause of
\* _query_by_fulltext caught, `error` the one that left retrieve.
IdleRt ==
    [pc |-> "none", driver |-> "none", session |-> "none", query |-> "", k |-> 0,
     matched |-> << >>, path |-> "none", changes |-> << >>, error |-> "none",
     caught |-> "none"]

\* The retriever is not in use.
RtIdle == {"none", "closed"}

\* No markup to parse.
NoParsed == [title |-> None, metas |-> << >>, events |-> << >>]
IdleParser == [pc |-> "none", parsed |-> NoParsed, source_url |-> "", doc |-> NoDoc,
               again |-> NoDoc]

\* No such call.
IdleCall == [pc |-> "none"]

Init ==
    /\ store = EmptyStore
    /\ ld = IdleLd
    /\ runs = 0
    /\ rt = IdleRt
    /\ ftIndex = FALSE
    /\ parser = IdleParser
    /\ call = IdleCall

(***************************************************************************)
(* load_to_neo4j, one action for each statement                            *)
(***************************************************************************)

\* upsert_agents: "if not agents: return".
AfterSchema(l) == IF Len(l.agents) > 0 THEN "agents" ELSE "patch"
AfterSession(l) == IF l.wipe THEN "wipe" ELSE "schema"

\* Where relink_patch_agent_mentions ends: back in load_to_neo4j, whose with
\* block then ends, or at its own caller.
AfterRelink(l) == IF l.mode = "load" THEN "exit" ELSE "returned"

\* relink_patch_agent_mentions begins: "if not agents: return 0".
RelinkEntry(l) == IF Len(l.agents) = 0 THEN AfterRelink(l) ELSE "relink_delete"

\* The rows of the relink loop whose text mentions an agent of the roster: the
\* others are passed over without a statement.
Pending(rows) == {r \in rows : r.uuids # {}}

\* driver = GraphDatabase.driver(...); patch_id = patch_doc["patch"]["id"]
LoadStart(doc, agents, wipe) ==
    /\ ld.pc \in Ended
    /\ rt.pc \in RtIdle
    /\ runs < MaxRuns
    /\ runs' = runs + 1
    /\ ld' = [IdleLd EXCEPT !.mode = "load", !.pc = "session", !.doc = doc,
                            !.patch_id = doc.patch.id, !.agents = agents,
                            !.wipe = wipe, !.driver = "open",
                            !.prev = [pc |-> ld.pc, mode |-> ld.mode, doc |-> ld.doc,
                                      agents |-> ld.agents, result |-> ld.result],
                            !.store0 = store]
    /\ UNCHANGED <<store, rt, ftIndex, parser, call>>

\* with driver.session(database=...) as session
OpenSession ==
    /\ ld.pc = "session"
    /\ \/ ld' = [ld EXCEPT !.session = "open", !.pc = AfterSession(ld)]
       \/ ld' = [ld EXCEPT !.error = TRUE, !.pc = "finally"]
    /\ UNCHANGED <<store, runs, rt, ftIndex, parser, call>>

\* if wipe: session.run("MATCH (n) DETACH DELETE n")
Wipe ==
    /\ ld.pc = "wipe"
    /\ store' = WipeStmt(store)
    /\ ld' = [ld EXCEPT !.pc = "schema"]
    /\ UNCHANGED <<runs, rt, ftIndex, parser, call>>

\* if apply_schema_file is not None: apply_schema(...), the statements of the
\* schema file (constraints and indexes: no node, no relationship). The
\* parameter is drawn here, where it is read.
ApplySchema ==
    /\ ld.pc = "schema"
    /\ ld' = [ld EXCEPT !.pc = AfterSchema(ld)]
    /\ UNCHANGED <<store, runs, rt, ftIndex, parser, call>>

UpsertAgents ==
    /\ ld.pc = "agents"
    /\ store' = UpsertAgentsStmt(store, ld.agents)
    /\ ld' = [ld EXCEPT !.pc = "patch"]
    /\ UNCHANGED <<runs, rt, ftIndex, parser, call>>

UpsertPatch ==
    /\ ld.pc = "patch"
    /\ store' = UpsertPatchStmt(store, ld.doc.patch)
    /\ ld' = [ld EXCEPT !.pc = "clear"]
    /\ UNCHANGED <<runs, rt, ftIndex, parser, call>>

ClearPatchSubgraph ==
    /\ ld.pc = "clear"
    /\ store' = ClearPatchSubgraphStmt(store, ld.doc.patch.id)
    /\ ld' = IF Len(ld.doc.sections) = 0
             THEN [ld EXCEPT !.pc = RelinkEntry(ld)]
             ELSE [ld EXCEPT !.pc = "section", !.si = 1]
    /\ UNCHANGED <<runs, rt, ftIndex, parser, call>>

\* The next position of the loop over sections after section si is done.
NextSection(l) ==
    IF l.si < Len(l.doc.sections)
    THEN [l EXCEPT !.pc = "section", !.si = l.si + 1]
    ELSE [l EXCEPT !.pc = RelinkEntry(l)]

WriteSection ==
    /\ ld.pc = "section"
    /\ LET section == ld.doc.sections[ld.si]
           counted == [ld EXCEPT !.section_count = ld.section_count + 1,
                                 !.change_count = ld.change_count + Len(section.changes)]
       IN  /\ store' = SectionStmt(store, ld.doc.patch.id, section, section.order)
           /\ ld' = IF Len(section.changes) = 0
                    THEN NextSection(counted)
                    ELSE [counted EXCEPT !.pc = "changes"]
    /\ UNCHANGED <<runs, rt, ftIndex, parser, call>>

WriteChanges ==
    /\ ld.pc = "changes"
    /\ LET section == ld.doc.sections[ld.si]
       IN  store' = ChangesStmt(store, section.id, section.changes)
    /\ ld' = NextSection(ld)
    /\ UNCHANGED <<runs, rt, ftIndex, parser, call>>

RelinkDelete ==
    /\ ld.pc = "relink_delete"
    /\ store' = RelinkDeleteStmt(store, ld.patch_id)
    /\ ld' = [ld EXCEPT !.pc = "relink_read"]
    /\ UNCHANGED <<runs, rt, ftIndex, parser, call>>

RelinkRead ==
    /\ ld.pc = "relink_read"
    /\ LET rows == RelinkRows(store, ld.patch_id, ld.agents)
       IN  ld' = [ld EXCEPT !.records = rows,
                            !.pc = IF Pending(rows) = {}
                                   THEN AfterRelink(ld) ELSE "relink_link"]
    /\ UNCHANGED <<store, runs, rt, ftIndex, parser, call>>

\* One round of the loop over the records that sends a statement; the rows come
\* in the order the store chooses.
RelinkLink ==
    /\ ld.pc = "relink_link"
    /\ \E r \in Pending(ld.records) :
          LET uuids == r.uuids
              rest == ld.records \ {r}
          IN  /\ store' = LinkStmt(store, r.change_id, uuids)
              /\ ld' = [ld EXCEPT
                          !.records = rest,
                          !.links_created = ld.links_created + Cardinality(uuids),
                          !.created = ld.created +
                              Cardinality(LinkEdges(store, r.change_id, uuids) \ store.mentions),
                          !.pc = IF Pending(rest) = {}
                                 THEN AfterRelink(ld) ELSE "relink_link"]
    /\ UNCHANGED <<runs, rt, ftIndex, parser, call>>

\* A statement raises: nothing of it is committed, the error leaves the
\* functions called and their locals are gone with them.
StmtFails ==
    /\ ld.pc \in StmtPcs
    /\ ld' = [ld EXCEPT !.error = TRUE, !.si = 0, !.section_count = 0,
                        !.change_count = 0, !.records = {}, !.links_created = 0,
                        !.created = 0,
                        !.pc = IF ld.mode = "load" THEN "exit" ELSE "raised"]
    /\ UNCHANGED <<store, runs, rt, ftIndex, parser, call>>

\* The with block ends, normally or by an error: the session is closed.
SessionExit ==
    /\ ld.pc = "exit"
    /\ ld' = [ld EXCEPT !.session = "closed", !.pc = "finally",
                        !.result = IF ld.error THEN NoResult
                                   ELSE [sections |-> ld.section_count,
                                         changes |-> ld.change_count,
                                         agents |-> Len(ld.agents),
                                         agent_links |-> ld.links_created]]
    /\ UNCHANGED <<store, runs, rt, ftIndex, parser, call>>

\* Mutant: the driver is closed at the end of the try block, not in a finally
\* clause, so an error leaves it open.
DriverCloseAfterTry ==
    /\ ld.pc = "finally"
    /\ ld' = [ld EXCEPT !.driver = IF ld.error THEN ld.driver ELSE "closed",
                        !.pc = IF ld.error THEN "raised" ELSE "returned"]
    /\ UNCHANGED <<store, runs, rt, ftIndex, parser, call>>

\* finally: driver.close()
DriverClose ==
    /\ ld.pc = "finally"
    /\ ld' = [ld EXCEPT !.driver = "closed",
                        !.pc = IF ld.error THEN "raised" ELSE "returned"]
    /\ UNCHANGED <<store, runs, rt, ftIndex, parser, call>>

\* relink_patch_agent_mentions called on its own, on a session of the caller's,
\* with a roster whose agents the store holds (as load_to_neo4j calls it).
RelinkStart(patch_id, agents) ==
    /\ ld.pc \in Ended
    /\ rt.pc \in RtIdle
    /\ runs < MaxRuns
    /\ \A i \in 1..Len(agents) : agents[i].uuid \in DOMAIN store.agents
    /\ runs' = runs + 1
    /\ ld' = LET l == [IdleLd EXCEPT !.mode = "relink", !.patch_id = patch_id,
                                     !.agents = agents, !.store0 = store]
             IN  [l EXCEPT !.pc = RelinkEntry(l)]
    /\ UNCHANGED <<store, rt, ftIndex, parser, call>>

Next ==
    \/ \E doc \in Docs, agents \in Rosters, wipe \in BOOLEAN :
          LoadStart(doc, agents, wipe)
    \/ OpenSession
    \/ Wipe
    \/ ApplySchema
    \/ UpsertAgents
    \/ UpsertPatch
    \/ ClearPatchSubgraph
    \/ WriteSection
    \/ WriteChanges
    \/ RelinkDelete
    \/ RelinkRead
    \/ RelinkLink
    \/ StmtFails
    \/ SessionExit
    \/ DriverClose
    \/ \E patch_id \in PatchIds, agents \in Rosters : RelinkStart(patch_id, agents)

Spec == Init /\ [][Next]_vars

(***************************************************************************)
(* Claims about the materializer                                           *)
(***************************************************************************)

LoadReturned == ld.mode = "load" /\ ld.pc = "returned"
DocSectionIds(doc) == {doc.sections[i].id : i \in 1..Len(doc.sections)}
DocChanges(doc) ==
    UNION {{doc.sections[i].changes[j] : j \in 1..Len(doc.sections[i].changes)} :
              i \in 1..Len(doc.sections)}
DocChangeIds(doc) == {c.id : c \in DocChanges(doc)}

\* The call before this one was a load_to_neo4j of the same document and roster
\* that ended as `how`, and nothing ran in between.
RepeatsPrevious(how) ==
    /\ ld.prev.mode = "load"
    /\ ld.prev.pc = how
    /\ ld.prev.doc = ld.doc
    /\ ld.prev.agents = ld.agents

\* C1: a load_to_neo4j without wipe that follows a completed load_to_neo4j of the
\* same document and roster returns the same section and change counts and
\* leaves the store (nodes, their properties, relationships) as the first left it.
C1_IdempotentMaterialization ==
    (LoadReturned /\ ~ld.wipe /\ RepeatsPrevious("returned"))
        => /\ ld.result.sections = ld.prev.result.sections
           /\ ld.result.changes = ld.prev.result.changes
           /\ store = ld.store0

C1_Witness ==
    /\ LoadReturned /\ ~ld.wipe /\ RepeatsPrevious("returned")
    /\ ld.result.changes = 3
    /\ store.mentions # {}

\* C2: when load_to_neo4j returns, the sections and changes of its patch in the
\* store are exactly those of its document, with the document's names, orders
\* and texts, whatever the store held of that patch before; no other section
\* or change of the patch is left, and no mention relationship of a change of
\* the patch to an agent its present text and roster do not give.
C2_SubgraphIsTheDocument ==
    LoadReturned =>
        LET P == ld.doc.patch.id
        IN  /\ SectionsOf(store, P) = DocSectionIds(ld.doc)
            /\ ChangesOf(store, P) = DocChangeIds(ld.doc)
            /\ {n \in DOMAIN store.sections : store.sections[n].patch_id = P}
                  = DocSectionIds(ld.doc)
            /\ {n \in DOMAIN store.changes : StartsWith(n, P \o "-s")}
                  = DocChangeIds(ld.doc)
            /\ \A i \in 1..Len(ld.doc.sections) :
                  /\ store.sections[ld.doc.sections[i].id].name = ld.doc.sections[i].name
                  /\ store.sections[ld.doc.sections[i].id].order = ld.doc.sections[i].order
            /\ \A i \in 1..Len(ld.doc.sections) :
                  \A j \in 1..Len(ld.doc.sections[i].changes) :
                     LET c == ld.doc.sections[i].changes[j]
                     IN  /\ store.changes[c.id].text = c.text
                         /\ store.changes[c.id].order = c.order
                         /\ <<ld.doc.sections[i].id, c.id>> \in store.hasChange
            /\ \A e \in store.mentions :
                  e[1] \in DocChangeIds(ld.doc)
                     => e[2] \in detect_agent_mentions(store.changes[e[1]].text, ld.agents)

\* An earlier version of the patch had a section the document does not have and
\* a mention the document's text does not give.
C2_Witness ==
    /\ LoadReturned
    /\ \E s \in SectionsOf(ld.store0, ld.doc.patch.id) : s \notin DocSectionIds(ld.doc)
    /\ \E e \in ld.store0.mentions : e[1] \in DocChangeIds(ld.doc) /\ e \notin store.mentions

\* C3: in every state of the store, between any two statements and after a
\* failed call as well, every relationship has both its nodes, every section
\* has a HAS_SECTION relationship from a patch and every change a HAS_CHANGE
\* relationship from a section.
C3_StructurallyConsistent ==
    /\ \A e \in store.hasSection :
          e[1] \in DOMAIN store.patches /\ e[2] \in DOMAIN store.sections
    /\ \A e \in store.hasChange :
          e[1] \in DOMAIN store.sections /\ e[2] \in DOMAIN store.changes
    /\ \A e \in store.mentions :
          e[1] \in DOMAIN store.changes /\ e[2] \in DOMAIN store.agents
    /\ \A s \in DOMAIN store.sections : \E e \in store.hasSection : e[2] = s
    /\ \A c \in DOMAIN store.changes : \E e \in store.hasChange : e[2] = c

\* A call failed after the clear and before the rebuild: the patch is left
\* without sections.
C3_Witness ==
    /\ ld.mode = "load" /\ ld.pc = "raised"
    /\ ld.doc.patch.id \in DOMAIN store.patches
    /\ SectionsOf(store, ld.doc.patch.id) = {}
    /\ ChangesOf(ld.store0, ld.doc.patch.id) # {}
    /\ ld.store0.mentions # {}

\* C4: when a load_to_neo4j that failed at any statement is followed by a
\* load_to_neo4j of the same document and roster that returns, the patch's
\* subgraph is the one a single load_to_neo4j of them into an empty store leaves.
C4_RecoveryByRerun ==
    (LoadReturned /\ RepeatsPrevious("raised"))
        => PatchSubgraph(store, ld.doc.patch.id)
              = PatchSubgraph(Materialize(EmptyStore, ld.doc, ld.agents, FALSE),
                              ld.doc.patch.id)

\* The failed call left the patch with some of its sections, not all it has now.
C4_Witness ==
    /\ LoadReturned /\ RepeatsPrevious("raised")
    /\ SectionsOf(ld.store0, ld.doc.patch.id) # {}
    /\ PatchSubgraph(ld.store0, ld.doc.patch.id) # PatchSubgraph(store, ld.doc.patch.id)
    /\ store.mentions # {}

\* The mention relationships of a patch's changes, and those its texts and a
\* roster give.
MentionsOfPatch(g, patch_id) == {e \in g.mentions : e[1] \in ChangesOf(g, patch_id)}
MentionsMatched(g, patch_id, agents) ==
    UNION {{<<c, u>> : u \in detect_agent_mentions(g.changes[c].text, agents)} :
              c \in ChangesOf(g, patch_id)}

\* C5: when relink_patch_agent_mentions has returned, for any roster, the
\* mention relationships of the patch's changes are exactly the pairs the
\* roster's aliases match, and the number returned is the number of
\* relationships it created.
C5_RelinkContract ==
    (ld.pc = "returned" /\ ld.mode \in {"load", "relink"})
        => /\ MentionsOfPatch(store, ld.patch_id)
                 = MentionsMatched(store, ld.patch_id, ld.agents)
           /\ ld.links_created = ld.created

\* C6 as stated: no step ever removes an agent node.
C6_AgentsNeverDeleted ==
    [][DOMAIN store.agents \subseteq DOMAIN store'.agents]_vars

\* C6, amended: no step other than the wipe statement of a load_to_neo4j called
\* with wipe removes an agent node.
C6_AgentsKeptWithoutWipe ==
    [][(ld.mode = "load" /\ ld.wipe /\ ld.pc = "wipe")
          \/ DOMAIN store.agents \subseteq DOMAIN store'.agents]_vars

\* A load_to_neo4j without wipe has returned and the store holds an agent that
\* its roster does not.
C6_Witness ==
    /\ LoadReturned /\ ~ld.wipe
    /\ \E u \in DOMAIN store.agents : \A i \in 1..Len(ld.agents) : ld.agents[i].uuid # u

(***************************************************************************)
(* GraphRetriever: one action for each statement of retrieve               *)
(***************************************************************************)

\* The questions asked and the numbers of changes asked for.
Queries == {"Harbor", "reyna vs harbor", "CRASH", "agent updates", "dismiss cove"}
Ks == {1, 2}

\* The errors a statement may raise: the full-text index is missing (a
\* Neo4jError, raised by the full-text query alone), another error of the
\* server (a Neo4jError), an error of the driver (a DriverError).
StmtErrors == {"neo4j_other", "driver"}
IsNeo4jError(e) == e \in {"no_index", "neo4j_other"}

\* GraphRetriever.__init__: self.driver = GraphDatabase.driver(...)
RetrieverOpen ==
    /\ rt.pc = "none"
    /\ ld.pc \in Ended
    /\ rt' = [IdleRt EXCEPT !.pc = "ready", !.driver = "open"]
    /\ UNCHANGED <<store, ld, runs, ftIndex, parser, call>>

\* retrieve: with self.driver.session(...) as session
RetrieveStart(query, k) ==
    /\ rt.pc \in {"ready", "returned", "raised"}
    /\ rt' = [IdleRt EXCEPT !.pc = "resolve", !.driver = "open", !.session = "open",
                            !.query = query, !.k = k]
    /\ UNCHANGED <<store, ld, runs, ftIndex, parser, call>>

\* matched_agents = self._resolve_agents(session, query); if matched_agents: ...
ResolveAgents ==
    /\ rt.pc = "resolve"
    /\ \E matched \in resolve_agents(store, rt.query) :
          rt' = [rt EXCEPT !.matched = matched,
                           !.pc = IF Len(matched) > 0 THEN "by_agents" ELSE "fulltext"]
    /\ UNCHANGED <<store, ld, runs, ftIndex, parser, call>>

QueryByAgents ==
    /\ rt.pc = "by_agents"
    /\ \E changes \in query_by_agents(store,
                          {rt.matched[i].uuid : i \in 1..Len(rt.matched)}, rt.k) :
          rt' = [rt EXCEPT !.changes = changes, !.path = "agents", !.pc = "exit"]
    /\ UNCHANGED <<store, ld, runs, ftIndex, parser, call>>

\* The full-text query answers.
QueryByFulltext ==
    /\ rt.pc = "fulltext"
    /\ ftIndex
    /\ \E changes \in query_by_fulltext(store, rt.k) :
          rt' = [rt EXCEPT !.changes = changes, !.path = "fulltext", !.pc = "exit"]
    /\ UNCHANGED <<store, ld, runs, ftIndex, parser, call>>

\* The full-text query raises: "except Neo4jError" goes on to the fallback
\* query, any other error leaves retrieve.
FulltextRaises ==
    /\ rt.pc = "fulltext"
    /\ \E e \in (IF ftIndex THEN {} ELSE {"no_index"}) \cup StmtErrors :
          rt' = IF IsNeo4jError(e)
                THEN [rt EXCEPT !.caught = e, !.pc = "fallback"]
                ELSE [rt EXCEPT !.error = e, !.pc = "exit"]
    /\ UNCHANGED <<store, ld, runs, ftIndex, parser, call>>

QueryFallback ==
    /\ rt.pc = "fallback"
    /\ \E changes \in query_fallback(store, rt.query, rt.k) :
          rt' = [rt EXCEPT !.changes = changes, !.path = "fallback", !.pc = "exit"]
    /\ UNCHANGED <<store, ld, runs, ftIndex, parser, call>>

\* A statement outside the try block raises.
RetrieveStmtFails ==
    /\ rt.pc \in {"resolve", "by_agents", "fallback"}
    /\ \E e \in StmtErrors : rt' = [rt EXCEPT !.error = e, !.pc = "exit"]
    /\ UNCHANGED <<store, ld, runs, ftIndex, parser, call>>

\* The with block of retrieve ends, normally or by an error.
RetrieveSessionExit ==
    /\ rt.pc = "exit"
    /\ rt' = [rt EXCEPT !.session = "closed",
                        !.pc = IF rt.error = "none" THEN "returned" ELSE "raised"]
    /\ UNCHANGED <<store, ld, runs, ftIndex, parser, call>>

\* GraphRetriever.close, which __exit__ calls when the with block of the
\* command line ends, normally or by an error of retrieve.
RetrieverClose ==
    /\ rt.pc \in {"ready", "returned", "raised"}
    /\ rt' = [IdleRt EXCEPT !.pc = "closed", !.driver = "closed"]
    /\ UNCHANGED <<store, ld, runs, ftIndex, parser, call>>

NextRetrieve ==
    \/ RetrieverOpen
    \/ \E query \in Queries, k \in Ks : RetrieveStart(query, k)
    \/ ResolveAgents
    \/ QueryByAgents
    \/ QueryByFulltext
    \/ FulltextRaises
    \/ QueryFallback
    \/ RetrieveStmtFails
    \/ RetrieveSessionExit
    \/ RetrieverClose

\* The stores one or two loads that ran to their end leave.
LoadedOnce == {Materialize(EmptyStore, doc, agents, FALSE) : doc \in Docs, agents \in Rosters}
LoadedTwice == {Materialize(g, doc, agents, FALSE) : g \in LoadedOnce, doc \in Docs, agents \in Rosters}
PreloadedStores == {EmptyStore} \cup LoadedOnce \cup LoadedTwice

\* Retrieval from a store the materializer has left, with the index or without.
InitRetrieve ==
    /\ store \in PreloadedStores
    /\ ld = IdleLd
    /\ runs = 0
    /\ rt = IdleRt
    /\ ftIndex \in BOOLEAN
    /\ parser = IdleParser
    /\ call = IdleCall

SpecRetrieve == InitRetrieve /\ [][NextRetrieve]_vars

\* One more call of the materializer and the use of one retriever, one after
\* the other in either order, on a store that holds a patch and two agents.
InitSessions ==
    /\ store = Materialize(EmptyStore, DocA1, << Harbor, Reyna >>, FALSE)
    /\ ld = IdleLd
    /\ runs = MaxRuns - 1
    /\ rt = IdleRt
    /\ ftIndex \in BOOLEAN
    /\ parser = IdleParser
    /\ call = IdleCall

NextSessions == Next \/ NextRetrieve

SpecSessions == InitSessions /\ [][NextSessions]_vars

(***************************************************************************)
(* Claims about sessions and about the fallback of the retriever           *)
(***************************************************************************)

\* C7: when load_to_neo4j has returned or raised, whichever statement raised,
\* its session is not open and its driver is closed; when retrieve has returned
\* or raised, its session is closed; when the retriever has been closed, so is
\* its driver.
C7_SessionsReleased ==
    /\ (ld.mode = "load" /\ ld.pc \in {"returned", "raised"}) =>
          (ld.session # "open" /\ ld.driver = "closed")
    /\ rt.pc \in {"returned", "raised"} => rt.session = "closed"
    /\ rt.pc = "closed" => (rt.session # "open" /\ rt.driver = "closed")

\* A load whose statement raised and a retrieve whose query raised, both over.
C7_Witness ==
    /\ ld.mode = "load" /\ ld.pc = "raised" /\ ld.session = "closed"
    /\ ld.driver = "closed"
    /\ rt.pc = "raised" /\ rt.error # "none" /\ rt.session = "closed"

Range(f) == {f[i] : i \in DOMAIN f}

\* changes is what the fallback is to return for the query: the rows, 1.0
\* each, of the first k of the paths whose change text or section name holds
\* the query whatever the case, by section order, then change order.
IsFallbackResult(g, query, k, changes) ==
    LET M == FallbackMatches(g, query)
        n == Len(changes)
    IN  /\ n = Min(k, Cardinality(M))
        /\ \E f \in [1..n -> M] :
              /\ \A i, j \in 1..n : i < j => (f[i] # f[j] /\ ~PathBefore(g, f[j], f[i]))
              /\ \A i \in 1..n : changes[i] = record_to_change(g, f[i], "1.0")
              /\ \A path \in M \ Range(f) : \A i \in 1..n : ~PathBefore(g, path, f[i])

C9_OnlyMissingIndexFallsBack ==
    /\ (rt.pc = "fallback" \/ rt.path = "fallback") => rt.caught = "no_index"
    /\ rt.pc = "returned" => (rt.error = "none" /\ rt.caught \in {"none", "no_index"})

(***************************************************************************)
(* parse_patch_notes_html on the events of bounded pages                   *)
(***************************************************************************)

\* The events a page is made of: headings, changes in and out of the article,
\* a paragraph inside a list item, the heading that ends the walk.
NoAttrs == [datetime |-> ""]
InArticle == << "html", "body", "article" >>
H2Agents == [tag |-> "h2", attrs |-> NoAttrs, text |-> "Agent Updates", parents |-> InArticle]
LiReyna ==
    [tag |-> "li", attrs |-> NoAttrs, text |-> "Reyna Leer duration reduced",
     parents |-> << "html", "body", "article", "ul" >>]
PCrash ==
    [tag |-> "p", attrs |-> NoAttrs, text |-> "Fixed a crash in the shop",
     parents |-> << "html", "body", "main" >>]
H3Bugs == [tag |-> "h3", attrs |-> NoAttrs, text |-> "Bug Fixes", parents |-> InArticle]
H2Related == [tag |-> "h2", attrs |-> NoAttrs, text |-> "Related Articles", parents |-> InArticle]
PInLi ==
    [tag |-> "p", attrs |-> NoAttrs, text |-> "Harbor Cove shield lowered",
     parents |-> << "html", "body", "article", "ul", "li" >>]
EventPool == {H2Agents, LiReyna, PCrash, H3Bugs, H2Related, PInLi}

\* The events of a page at most.
MaxEvents == 3

\* The sequences of at most n events of the pool.
EventSeqs(n) == UNION {[1..m -> EventPool] : m \in 0..n}

\* Longer pages: a change said twice under a heading and once more under
\* another; a change said under each of two headings of the same name (as the
\* subsections of two platforms are); two sections of two changes.
LongPages ==
    { << LiReyna, LiReyna, H3Bugs, LiReyna >>,
      << LiReyna, H2Agents, H3Bugs, LiReyna >>,
      << H2Agents, H3Bugs, LiReyna, H2Agents, H3Bugs, LiReyna >>,
      << H3Bugs, LiReyna, H3Bugs, LiReyna >>,
      << H2Agents, LiReyna, PInLi, H3Bugs, LiReyna, LiReyna, H2Related, LiReyna >> }

\* A list item of the article with this text.
Li(text) ==
    [tag |-> "li", attrs |-> NoAttrs, text |-> text,
     parents |-> << "html", "body", "article", "ul" >>]

\* List items the filter is to pass over, one it keeps, and one of 11
\* characters whose lower case has 12.
NoisePool ==
    { Li("Share"), Li("Copy Link"), Li("2026-02-03T10:00:00Z"), Li("Short text"),
      Li("Related articles for you"), Li("Game Updates: VALORANT Patch Notes 12.01"),
      Li("Read  More"), Li(CapitalIDot \o "stanbul ok"), LiReyna }

\* The list items of such a page at most.
MaxNoise == 2

NoisePages == UNION {[1..m -> NoisePool] : m \in 1..MaxNoise}

\* The pages parsed.
Pages == EventSeqs(MaxEvents) \cup LongPages \cup NoisePages

\* Where the page is from and what its head says: a title with the patch id
\* and a URL with another, or a URL without one and no title.
PageSources ==
    { [title |-> None,
       metas |-> << [property |-> "og:title", content |-> " VALORANT  Patch Notes 7.9 "] >>,
       source_url |-> UrlA],
      [title |-> None, metas |-> << >>, source_url |-> UrlA],
      [title |-> "News", metas |-> << >>, source_url |-> "https://playvalorant.com/en-us/news/"] }

InitParse ==
    /\ store = EmptyStore
    /\ ld = IdleLd
    /\ runs = 0
    /\ rt = IdleRt
    /\ ftIndex = FALSE
    /\ call = IdleCall
    /\ \E src \in PageSources, events \in Pages :
          parser = [IdleParser EXCEPT !.pc = "input",
                                      !.parsed = [title |-> src.title, metas |-> src.metas,
                                                  events |-> events],
                                      !.source_url = src.source_url]

\* parse_patch_notes_html(html, source_url)
Parse ==
    /\ parser.pc = "input"
    /\ parser' = [parser EXCEPT !.pc = "parsed",
                                !.doc = parse_patch_notes_html(parser.parsed, parser.source_url)]
    /\ UNCHANGED <<store, ld, runs, rt, ftIndex, call>>

\* The same call once more.
ParseAgain ==
    /\ parser.pc = "parsed"
    /\ parser' = [parser EXCEPT !.pc = "reparsed",
                                !.again = parse_patch_notes_html(parser.parsed, parser.source_url)]
    /\ UNCHANGED <<store, ld, runs, rt, ftIndex, call>>

NextParse == Parse \/ ParseAgain

SpecParse == InitParse /\ [][NextParse]_vars

\* C10: in the document parse_patch_notes_html returns, the i-th section (from
\* 0) has the id "{patchId}-s{i}", its j-th change the id "{sectionId}-c{j}" and
\* the order j; the ids of the sections differ from one another, so do those of
\* the changes; a second call on the same input returns the same document.
C10_DenseDeterministicIds ==
    parser.pc \in {"parsed", "reparsed"} =>
        LET doc == parser.doc
            n == Len(doc.sections)
            at == {<<i, j>> \in (1..n) \X (1..(MaxEvents + 1)) :
                      j <= Len(doc.sections[i].changes)}
        IN  /\ \A i \in 1..n :
                  /\ doc.sections[i].id = doc.patch.id \o "-s" \o DecStr(i - 1)
                  /\ \A j \in 1..Len(doc.sections[i].changes) :
                        /\ doc.sections[i].changes[j].id =
                              doc.sections[i].id \o "-c" \o DecStr(j - 1)
                        /\ doc.sections[i].changes[j].order = j - 1
            /\ \A i, k \in 1..n : i # k => doc.sections[i].id # doc.sections[k].id
            /\ \A x, y \in at :
                  x # y => doc.sections[x[1]].changes[x[2]].id #
                           doc.sections[y[1]].changes[y[2]].id
            /\ parser.pc = "reparsed" => parser.again = doc

\* The page has been parsed twice, and the section returned first comes after
\* two raw sections that were dropped for having no change.
C10_Witness ==
    /\ parser.pc = "reparsed"
    /\ Len(parser.doc.sections) = 1
    /\ parser.doc.sections[1].order = 2
    /\ parser.doc.sections[1].id = "7.09-s0"
    /\ parser.doc.sections[1].changes[1].id = "7.09-s0-c0"

(***************************************************************************)
(* Claims about the walk of the segmenter, stated on the events themselves *)
(***************************************************************************)

\* The events the walk reads: the scoped events before the heading that ends it.
WalkedEvents ==
    LET events == scoped_events(parser.parsed)
        stops == {i \in 1..Len(events) :
                    /\ events[i].tag \in {"h2", "h3"}
                    /\ lower(normalize_space(events[i].text)) = "related articles"}
    IN  IF stops = {} THEN events
        ELSE SubSeq(events, 1, (CHOOSE i \in stops : \A j \in stops : i <= j) - 1)

\* The event is a heading that opens a section.
OpensSection(event) ==
    /\ event.tag \in {"h2", "h3"}
    /\ lower(normalize_space(event.text)) \notin NOISE_HEADINGS \cup {""}

\* The event is a list item or a paragraph outside list items, with a text.
IsChangeEvent(event) ==
    /\ event.tag \in {"li", "p"}
    /\ ~(event.tag = "p" /\ InParents("li", event.parents))
    /\ normalize_space(event.text) # ""

\* The headings that open a section before event j.
HeadingsBefore(events, j) == {i \in 1..(j - 1) : OpensSection(events[i])}

\* The name of the heading event j stands under.
HeadingNameAt(events, j) ==
    LET hs == HeadingsBefore(events, j)
    IN  IF hs = {} THEN "General"
        ELSE normalize_space(events[CHOOSE i \in hs : \A k \in hs : k <= i].text)

\* The places (section, change) of the changes of the document.
PlacesOf(doc) ==
    UNION {{<<i, j>> : j \in 1..Len(doc.sections[i].changes)} : i \in 1..Len(doc.sections)}

\* The change events that pass the filter, among the events walked.
KeptChangeEvents(events) ==
    {j \in 1..Len(events) :
        IsChangeEvent(events[j]) /\ should_keep_change(normalize_space(events[j].text))}

\* C11 as it is stated, a heading being a heading element: each kept change
\* event yields exactly one change of its text in the section of the heading
\* element it stands under (the section whose order is the number of headings
\* before the event).
C11_DedupePerHeadingElement ==
    parser.pc \in {"parsed", "reparsed"} =>
        LET events == WalkedEvents
            doc == parser.doc
        IN  \A j \in KeptChangeEvents(events) :
               Cardinality({x \in PlacesOf(doc) :
                               /\ doc.sections[x[1]].order =
                                     Cardinality(HeadingsBefore(events, j))
                               /\ doc.sections[x[1]].changes[x[2]].text =
                                     normalize_space(events[j].text)}) = 1

\* C11, a heading being its text: each kept change event yields exactly one
\* change of its text in the sections named as the heading it stands under,
\* however many times the text is said under headings of that name.
C11_DedupePerHeadingName ==
    parser.pc \in {"parsed", "reparsed"} =>
        LET events == WalkedEvents
            doc == parser.doc
        IN  \A j \in KeptChangeEvents(events) :
               Cardinality({x \in PlacesOf(doc) :
                               /\ doc.sections[x[1]].name = HeadingNameAt(events, j)
                               /\ doc.sections[x[1]].changes[x[2]].text =
                                     normalize_space(events[j].text)}) = 1

\* A text said twice under one heading and once under another: two changes.
C11_Witness ==
    /\ parser.pc = "parsed"
    /\ parser.parsed.events = << LiReyna, LiReyna, H3Bugs, LiReyna >>
    /\ Len(parser.doc.sections) = 2
    /\ Len(parser.doc.sections[1].changes) = 1
    /\ Len(parser.doc.sections[2].changes) = 1
    /\ parser.doc.sections[1].changes[1].text = parser.doc.sections[2].changes[1].text

\* The text fails the change filter as the claim words it.
FailsFilter(text) ==
    \/ text = ""
    \/ lower(text) \in {"share", "copy link", "read more", "learn more"}
    \/ StartsWith(lower(text), "related articles")
    \/ (Contains(lower(text), "game updates") /\ Contains(lower(text), "patch notes"))
    \/ \E i \in 1..Len(text) : PatternAt(lower(text), i, TimestampPattern)
    \/ Len(text) < 12
    \/ Len(text) > 500

\* C12: no change of the document parse_patch_notes_html returns has a text
\* that fails the change filter: empty, a noise phrase, a text that starts
\* with "related articles", one that holds both "game updates" and "patch
\* notes", one with an ISO date-time in it, one shorter than 12 characters or
\* longer than 500.
C12_NoChangeFailsFilter ==
    parser.pc \in {"parsed", "reparsed"} =>
        \A x \in PlacesOf(parser.doc) :
            ~FailsFilter(parser.doc.sections[x[1]].changes[x[2]].text)

\* ---------------------------------------------------------------------------
\* fetch_current_patch.py: the current patch link of the listing page.
\* ---------------------------------------------------------------------------

\* No version: parse_patch_id found no match.
NoTuple == << >>

\* PATCH_ID_RE of fetch_current_patch.py, (\d{1,2})[-.](\d{1,2}), matches at
\* position i with groups of a and b digits; this pattern has no word boundary.
LinkIdMatch(s, i, a, b) ==
    /\ i + a <= Len(s)
    /\ Ch(s, i + a) \in {".", "-"}
    /\ DigitsAt(s, i, a)
    /\ DigitsAt(s, i + a + 1, b)

\* parse_patch_id(value): the groups of the leftmost match as integers, each
\* group as long as it can be, the first group first.
parse_patch_id(value) ==
    LET found == {m \in (1..Len(value)) \X {1, 2} \X {1, 2} :
                    LinkIdMatch(value, m[1], m[2], m[3])}
        rank(t) == 4 * t[1] + 2 * (2 - t[2]) + (2 - t[3])
        m == CHOOSE x \in found : \A y \in found : rank(x) <= rank(y)
    IN  IF value = "" \/ found = {} THEN NoTuple
        ELSE << ParseInt(SubSeq(value, m[1], m[1] + m[2] - 1)),
                ParseInt(SubSeq(value, m[1] + m[2] + 1, m[1] + m[2] + m[3])) >>

\* format_patch_id(parts)
format_patch_id(parts) ==
    IF parts = NoTuple THEN None ELSE DecStr(parts[1]) \o "." \o Dec02(parts[2])

\* urljoin(base_url, href) for a base that is an origin: an absolute href is
\* kept, a path is put under the origin.
urljoin(base_url, href) ==
    IF StartsWith(href, "https://") \/ StartsWith(href, "http://") THEN href
    ELSE IF StartsWith(href, "/") THEN base_url \o href
    ELSE base_url \o "/" \o href

\* The href of an anchor qualifies as a link to patch notes.
QualifiesHref(href) ==
    /\ href # ""
    /\ Contains(lower(href), "patch-notes")
    /\ ~Contains(lower(href), "/news/tags/patch-notes")
    /\ Contains(lower(href), "/news/")

RECURSIVE Candidates(_, _, _, _)
\* The loop over the anchors: candidates in document order, one per url.
Candidates(anchors, base_url, i, candidates) ==
    IF i > Len(anchors) THEN candidates
    ELSE
        LET href  == strip(anchors[i].href)
            url   == urljoin(base_url, href)
            title == normalize_space(anchors[i].text)
            byUrl == parse_patch_id(url)
            item  == [title |-> IF title = "" THEN "Valorant Patch Notes" ELSE title,
                      url |-> url,
                      patch_tuple |-> IF byUrl # NoTuple THEN byUrl
                                      ELSE parse_patch_id(title),
                      order |-> i - 1]
        IN  IF ~QualifiesHref(href) \/ \E c \in 1..Len(candidates) : candidates[c].url = url
            THEN Candidates(anchors, base_url, i + 1, candidates)
            ELSE Candidates(anchors, base_url, i + 1, Append(candidates, item))

\* A sort key that prefers the latest of the candidates of one version.
SortKeyLatest(item) == << item.patch_tuple[1], item.patch_tuple[2], item.order >>

\* The sort key of a versioned candidate.
SortKey(item) == << item.patch_tuple[1], item.patch_tuple[2], 0 - item.order >>

\* Tuple comparison of two sort keys: a < b.
KeyBefore(a, b) ==
    \/ a[1] < b[1]
    \/ a[1] = b[1] /\ a[2] < b[2]
    \/ a[1] = b[1] /\ a[2] = b[2] /\ a[3] < b[3]

\* extract_current_patch_link on the anchors of the page.
extract_current_patch_link(anchors, base_url) ==
    LET candidates == Candidates(anchors, base_url, 1, << >>)
        all        == {candidates[c] : c \in 1..Len(candidates)}
        versioned  == {item \in all : item.patch_tuple # NoTuple}
        selected   ==
            IF versioned # {}
            THEN CHOOSE item \in versioned :
                    \A other \in versioned : ~KeyBefore(SortKey(item), SortKey(other))
            ELSE CHOOSE item \in all : \A other \in all : item.order <= other.order
    IN  IF all = {} THEN [raised |-> "ValueError"]
        ELSE [raised |-> "", title |-> selected.title, url |-> selected.url,
              patch_id |-> format_patch_id(selected.patch_tuple)]

Origin == "https://playvalorant.com"

\* Anchors of a listing page.
AnchorPool ==
    { [href |-> "/news/valorant-patch-notes-11-01/",
       text |-> "Patch Notes 11.01"],
      [href |-> "/news/valorant-patch-notes-11-02/",
       text |-> "Patch Notes 11.02"],
      [href |-> " https://playvalorant.com/news/Patch-Notes-11-02-fix/ ",
       text |-> "Hotfix"],
      [href |-> "/news/tags/patch-notes/", text |-> "Patch Notes 12.01"],
      [href |-> "/news/valorant-patch-notes-preview/",
       text |-> "Next patch"],
      [href |-> "/news/patch-notes-archive/", text |-> ""],
      [href |-> "/news/the-patch-notes/", text |-> " Patch  9.5 out "] }

MaxAnchors == 3

RECURSIVE AnchorSeqs(_)
\* The anchor sequences of length at most n.
AnchorSeqs(n) ==
    IF n = 0 THEN {<< >>}
    ELSE LET shorter == AnchorSeqs(n - 1)
         IN  shorter \cup {Append(s, a) : s \in shorter, a \in AnchorPool}

InitListing ==
    /\ store = EmptyStore
    /\ ld = IdleLd
    /\ runs = 0
    /\ rt = IdleRt
    /\ ftIndex = FALSE
    /\ parser = IdleParser
    /\ \E anchors \in AnchorSeqs(MaxAnchors) :
        call = [pc |-> "listing", anchors |-> anchors]

\* A call of extract_current_patch_link.
ExtractLink ==
    /\ call.pc = "listing"
    /\ call' = [pc |-> "link", anchors |-> call.anchors,
                link |-> extract_current_patch_link(call.anchors, Origin)]
    /\ UNCHANGED <<store, ld, runs, rt, ftIndex, parser>>

NextListing == ExtractLink

SpecListing == InitListing /\ [][NextListing]_vars

\* The qualifying candidates of the call, by position among the anchors.
Qualifying ==
    {i \in 1..Len(call.anchors) :
        /\ QualifiesHref(strip(call.anchors[i].href))
        /\ \A j \in 1..(i - 1) :
             urljoin(Origin, strip(call.anchors[j].href)) #
             urljoin(Origin, strip(call.anchors[i].href))}

\* The version parsed for the anchor at position i.
VersionAt(i) ==
    LET url == urljoin(Origin, strip(call.anchors[i].href))
    IN  IF parse_patch_id(url) # NoTuple THEN parse_patch_id(url)
        ELSE parse_patch_id(normalize_space(call.anchors[i].text))

\* Version a is lower than version b.
VersionBelow(a, b) == a[1] < b[1] \/ (a[1] = b[1] /\ a[2] < b[2])

\* C13: the selected link is, among the qualifying candidates with a parsed
\* version, one of the greatest (major, minor) and the earliest of those in
\* document order; when no candidate has a version it is the earliest
\* candidate; the patch_id is major.minor with the minor padded to two digits.
C13_GreatestVersionEarliestFirst ==
    (call.pc = "link" /\ Qualifying # {}) =>
        LET withVersion == {i \in Qualifying : VersionAt(i) # NoTuple}
        IN  /\ call.link.raised = ""
            /\ \E i \in Qualifying :
                /\ call.link.url = urljoin(Origin, strip(call.anchors[i].href))
                /\ IF withVersion # {}
                   THEN /\ i \in withVersion
                        /\ \A j \in withVersion :
                             /\ ~VersionBelow(VersionAt(i), VersionAt(j))
                             /\ VersionAt(j) = VersionAt(i) => i <= j
                        /\ call.link.patch_id =
                             DecStr(VersionAt(i)[1]) \o "." \o
                             (IF VersionAt(i)[2] < 10 THEN "0" ELSE "") \o
                             DecStr(VersionAt(i)[2])
                   ELSE /\ \A j \in Qualifying : i <= j
                        /\ call.link.patch_id = None

\* Versions 11.01, 11.02, 11.02 in this order: the second link is selected.
C13_Witness ==
    /\ call.pc = "link"
    /\ Len(call.anchors) = 3
    /\ Qualifying = {1, 2, 3}
    /\ VersionAt(1) = << 11, 1 >>
    /\ VersionAt(2) = << 11, 2 >>
    /\ VersionAt(3) = << 11, 2 >>
    /\ call.link.url = Origin \o "/news/valorant-patch-notes-11-02/"
    /\ call.link.patch_id = "11.02"

\* ---------------------------------------------------------------------------
\* detect_agent_mentions as a function of a change text and a roster.
\* ---------------------------------------------------------------------------

\* The characters of uuids and names in code point order.
CodePointOrder == " -/" \o DigitChars \o UpperAlpha \o "_" \o LowerAlpha

RECURSIVE StrBefore(_, _)
\* a < b for two strings
StrBefore(a, b) ==
    IF Len(b) = 0 THEN FALSE
    ELSE IF Len(a) = 0 THEN TRUE
    ELSE IF Ch(a, 1) # Ch(b, 1)
         THEN IndexIn(Ch(a, 1), CodePointOrder) < IndexIn(Ch(b, 1), CodePointOrder)
         ELSE StrBefore(SubSeq(a, 2, Len(a)), SubSeq(b, 2, Len(b)))

\* sorted(S) for a set of strings
SortedStrings(S) ==
    CHOOSE f \in Enumerations(S) :
        \A i, j \in 1..Cardinality(S) : i < j => StrBefore(f[i], f[j])

KayO ==
    [uuid |-> "u-kayo", name |-> "KAY/O", role |-> "Initiator", icon_url |-> "",
     abilities |-> << "Go" >>, aliases |-> << "Go", "KAY/O" >>]

\* An entry without uuid.
Nameless ==
    [uuid |-> "", name |-> "Reyna", role |-> "", icon_url |-> "",
     abilities |-> << >>, aliases |-> << "Reyna" >>]

\* An entry without aliases: its name stands for them.
Bare ==
    [uuid |-> "u-harbor", name |-> "Tide", role |-> "", icon_url |-> "",
     abilities |-> << >>, aliases |-> << >>]

AgentPool == {Reyna, Harbor, KayO, Nameless, Bare}

MaxRoster == 2

RECURSIVE RostersUpTo(_)
\* The rosters of at most n agents.
RostersUpTo(n) ==
    IF n = 0 THEN {<< >>}
    ELSE LET shorter == RostersUpTo(n - 1)
         IN  shorter \cup {Append(s, a) : s \in shorter, a \in AgentPool}

ChangeTexts ==
    { "Go! Reyna's Leer duration reduced",
      "Let's go: kay-o and HIGH   TIDE buffed",
      "Harborside reynas; low tide",
      "High tides, cove",
      "Tide (Harbor) dismiss",
      "",
      "?!" }

InitMentions ==
    /\ store = EmptyStore
    /\ ld = IdleLd
    /\ runs = 0
    /\ rt = IdleRt
    /\ ftIndex = FALSE
    /\ parser = IdleParser
    /\ \E text \in ChangeTexts, agents \in RostersUpTo(MaxRoster) :
        call = [pc |-> "text", change_text |-> text, agents |-> agents]

\* A call of detect_agent_mentions.
DetectMentions ==
    /\ call.pc = "text"
    /\ call' = [pc |-> "mentions", change_text |-> call.change_text,
                agents |-> call.agents,
                uuids |-> SortedStrings(detect_agent_mentions(call.change_text,
                                                              call.agents))]
    /\ UNCHANGED <<store, ld, runs, rt, ftIndex, parser>>

NextMentions == DetectMentions

SpecMentions == InitMentions /\ [][NextMentions]_vars

RECURSIVE Tokens(_, _)
\* The words of a string, split at its spaces; word: the word being read.
Tokens(s, word) ==
    IF Len(s) = 0 THEN (IF word = "" THEN << >> ELSE << word >>)
    ELSE IF Ch(s, 1) = " "
         THEN (IF word = "" THEN << >> ELSE << word >>) \o Tokens(SubSeq(s, 2, Len(s)), "")
         ELSE Tokens(SubSeq(s, 2, Len(s)), word \o Ch(s, 1))

\* The words of the alias stand, in a row, among the words of the text.
WordsOccurIn(alias, text) ==
    LET a == Tokens(alias, "")
        t == Tokens(text, "")
    IN  \E at \in 0..(Len(t) - Len(a)) : \A i \in 1..Len(a) : t[at + i] = a[i]

\* Some alias of the agent, normalized, has 3 characters or more and stands
\* space-delimited in the normalized text.
AliasDelimitedIn(agent, text) ==
    \E i \in 1..Len(AliasesOf(agent)) :
        LET alias == normalize_for_match(AliasesOf(agent)[i])
        IN  Len(alias) >= 3 /\ WordsOccurIn(alias, normalize_for_match(text))

\* C14: a uuid is returned if and only if an agent of that uuid has an alias
\* whose normalized form has at least 3 characters and occurs space-delimited
\* in the normalized change text; no uuid is returned twice.
C14_MentionIffAliasDelimited ==
    call.pc = "mentions" =>
        /\ \A n \in 1..Len(call.agents) :
            call.agents[n].uuid # "" =>
                ((\E r \in 1..Len(call.uuids) : call.uuids[r] = call.agents[n].uuid)
                 <=> \E m \in 1..Len(call.agents) :
                        /\ call.agents[m].uuid = call.agents[n].uuid
                        /\ AliasDelimitedIn(call.agents[m], call.change_text))
        /\ \A r \in 1..Len(call.uuids) :
            \E n \in 1..Len(call.agents) : call.agents[n].uuid = call.uuids[r]
        /\ \A r, q \in 1..Len(call.uuids) : call.uuids[r] = call.uuids[q] => r = q

\* "Reyna's Leer duration reduced" with the word "Go" against Reyna and an agent
\* of alias "Go": Reyna alone is returned.
C14_Witness ==
    /\ call.pc = "mentions"
    /\ call.change_text = "Go! Reyna's Leer duration reduced"
    /\ call.agents = << KayO, Reyna >>
    /\ call.uuids = << "u-reyna" >>

\* ---------------------------------------------------------------------------
\* Entity resolution and the entity-scoped path.
\* ---------------------------------------------------------------------------

\* The lengths of the aliases of agent u that the query contains.
MatchingAliasLens(g, u, query) ==
    {Len(g.agents[u].aliases[i]) :
        i \in {n \in 1..Len(g.agents[u].aliases) :
                 Contains(lower(query), lower(g.agents[u].aliases[n]))}}

\* C15: entity resolution returns agents having an alias that is a
\* case-insensitive substring of the query, at most 4 of them, ordered by the
\* length of the matching alias descending.
C15_OrderedByMatchingAliasLength ==
    rt.pc = "by_agents" =>
        /\ Len(rt.matched) <= 4
        /\ \A i \in 1..Len(rt.matched) : rt.matched[i].uuid \in ResolveMatches(store, rt.query)
        /\ \A i, j \in 1..Len(rt.matched) :
            i < j => \E a \in MatchingAliasLens(store, rt.matched[i].uuid, rt.query),
                        b \in MatchingAliasLens(store, rt.matched[j].uuid, rt.query) : a >= b

\* ---------------------------------------------------------------------------
\* The sections the segmenter returns.
\* ---------------------------------------------------------------------------

\* C16 as it is stated: no returned section is the implicit General section
\* (the raw section of index 0) and every returned section has a change.
C16_GeneralNeverReturned ==
    parser.pc \in {"parsed", "reparsed"} =>
        \A i \in 1..Len(parser.doc.sections) :
            /\ parser.doc.sections[i].order # 0
            /\ Len(parser.doc.sections[i].changes) >= 1

\* C16: every returned section has at least one change, and the implicit
\* General section is returned exactly when a change is kept before the first
\* heading that opens a section; it is then the first section.
C16_OnlySectionsWithoutChangesDropped ==
    parser.pc \in {"parsed", "reparsed"} =>
        LET events == WalkedEvents
            sections == parser.doc.sections
        IN  /\ \A i \in 1..Len(sections) : Len(sections[i].changes) >= 1
            /\ (\E i \in 1..Len(sections) : sections[i].order = 0)
                 <=> \E j \in KeptChangeEvents(events) : HeadingsBefore(events, j) = {}
            /\ \A i \in 1..Len(sections) :
                 sections[i].order = 0 => i = 1 /\ sections[i].name = "General"

\* A change before the first heading, a heading without changes, a heading
\* with one: General and the last heading are returned.
C16_Witness ==
    /\ parser.pc = "parsed"
    /\ parser.parsed.events = << LiReyna, H2Agents, H3Bugs, LiReyna >>
    /\ Len(parser.doc.sections) = 2
    /\ parser.doc.sections[1].name = "General"
    /\ parser.doc.sections[1].order = 0
    /\ parser.doc.sections[2].order = 2

\* ---------------------------------------------------------------------------
\* fetch_agents.py: the roster made of the payload of the agents API.
\* ---------------------------------------------------------------------------

\* sorted(S, key=str.lower) for a set of strings: strings of one key stand in
\* the order the set yields them, which the sources do not fix.
SortedByLower(S) ==
    {f \in Enumerations(S) :
        \A i, j \in 1..Cardinality(S) : i < j => ~StrBefore(lower(f[j]), lower(f[i]))}

RECURSIVE AbilityNames(_, _)
\* The loop over item["abilities"]: the names that are not empty, normalized.
AbilityNames(abilities, i) ==
    IF i > Len(abilities) THEN << >>
    ELSE LET ability_name == normalize_space(abilities[i])
         IN  IF ability_name = "" THEN AbilityNames(abilities, i + 1)
             ELSE << ability_name >> \o AbilityNames(abilities, i + 1)

\* The entries agents.append may add for an item.
AgentsOfItem(item) ==
    LET name == normalize_space(item.displayName)
        role_name == normalize_space(item.role)
        abilities == AbilityNames(item.abilities, 1)
        names == {abilities[i] : i \in 1..Len(abilities)}
    IN  {[uuid |-> item.uuid,
          name |-> name,
          role |-> IF role_name = "" THEN None ELSE role_name,
          icon_url |-> IF Truthy(item.displayIcon) THEN item.displayIcon
                       ELSE IF Truthy(item.fullPortrait) THEN item.fullPortrait
                       ELSE item.bustPortrait,
          abilities |-> ab,
          aliases |-> al] :
            ab \in SortedByLower(names), al \in SortedByLower({name} \cup names)}

RECURSIVE AppendedAgents(_, _)
\* The loop over payload["data"]: the lists it may build.
AppendedAgents(data, i) ==
    IF i > Len(data) THEN {<< >>}
    ELSE IF ~data[i].isPlayableCharacter \/ normalize_space(data[i].displayName) = ""
         THEN AppendedAgents(data, i + 1)
         ELSE {<< agent >> \o rest :
                 agent \in AgentsOfItem(data[i]), rest \in AppendedAgents(data, i + 1)}

\* A filter that keeps every entry.
WithAnyUuid(agents) == agents

\* [agent for agent in agents if agent.get("uuid")]
WithUuid(agents) == SelectSeq(agents, LAMBDA agent : Truthy(agent.uuid))

RECURSIVE InsertByName(_, _)
\* agent put behind the entries of sorted whose lowered name is not greater.
InsertByName(sorted, agent) ==
    IF Len(sorted) = 0 THEN << agent >>
    ELSE IF StrBefore(lower(agent.name), lower(sorted[Len(sorted)].name))
         THEN Append(InsertByName(SubSeq(sorted, 1, Len(sorted) - 1), agent),
                     sorted[Len(sorted)])
         ELSE Append(sorted, agent)

RECURSIVE SortByName(_, _)
\* agents.sort(key=lambda agent: agent["name"].lower()), a stable sort
SortByName(agents, i) ==
    IF i = 0 THEN << >> ELSE InsertByName(SortByName(agents, i - 1), agents[i])

\* parse_agents_payload(payload): the rosters it may return.
parse_agents_payload(data) ==
    {SortByName(WithUuid(agents), Len(WithUuid(agents))) : agents \in AppendedAgents(data, 1)}

\* An item of the payload.
Item(uuid, displayName, playable, abilities) ==
    [uuid |-> uuid, displayName |-> displayName, isPlayableCharacter |-> playable,
     role |-> " Duelist ", displayIcon |-> None, fullPortrait |-> "",
     bustPortrait |-> "https://example.com/bust.png", abilities |-> abilities]

ItemPool ==
    { Item("123", " Reyna ", TRUE, << "Leer", "Dismiss", " Leer", "  " >>),
      Item("", "Ghost", TRUE, << "Leer" >>),
      Item(None, "Shade", TRUE, << >>),
      Item("456", "harbor", TRUE, << "Cove", "cove", "harbor" >>),
      Item("789", "Sova", FALSE, << "Recon Bolt" >>),
      Item("321", "  ", TRUE, << "High  Tide" >>),
      Item("654", "Astra", TRUE, << >>) }

MaxItems == 2

RECURSIVE Payloads(_)
\* The payloads of at most n items.
Payloads(n) ==
    IF n = 0 THEN {<< >>}
    ELSE LET shorter == Payloads(n - 1)
         IN  shorter \cup {Append(s, item) : s \in shorter, item \in ItemPool}

InitAgents ==
    /\ store = EmptyStore
    /\ ld = IdleLd
    /\ runs = 0
    /\ rt = IdleRt
    /\ ftIndex = FALSE
    /\ parser = IdleParser
    /\ \E data \in Payloads(MaxItems) : call = [pc |-> "payload", data |-> data]

\* A call of parse_agents_payload.
ParseAgentsPayload ==
    /\ call.pc = "payload"
    /\ \E agents \in parse_agents_payload(call.data) :
          call' = [pc |-> "agents", data |-> call.data, agents |-> agents]
    /\ UNCHANGED <<store, ld, runs, rt, ftIndex, parser>>

NextAgents == ParseAgentsPayload

SpecAgents == InitAgents /\ [][NextAgents]_vars

\* The items of the payload that have a name, are playable and have a uuid.
UsableItems(data) ==
    {i \in 1..Len(data) :
        /\ data[i].isPlayableCharacter
        /\ normalize_space(data[i].displayName) # ""
        /\ data[i].uuid \notin {"", None}}

\* The ability names of an item that are not empty.
NamedAbilities(item) ==
    {normalize_space(item.abilities[i]) : i \in 1..Len(item.abilities)} \ {""}

\* The sequence names no string twice.
NoDuplicates(seq) == \A i, j \in 1..Len(seq) : seq[i] = seq[j] => i = j

\* C17: every returned agent has a non-empty uuid, the entries without one
\* being discarded; its aliases are exactly its canonical name and the
\* non-empty ability names of its item, each once; its abilities name no
\* ability twice and are among its aliases.
C17_RosterEntries ==
    call.pc = "agents" =>
        /\ Len(call.agents) = Cardinality(UsableItems(call.data))
        /\ \A n \in 1..Len(call.agents) :
            LET agent == call.agents[n]
            IN  /\ agent.uuid \notin {"", None}
                /\ \E i \in UsableItems(call.data) :
                    /\ call.data[i].uuid = agent.uuid
                    /\ agent.name = normalize_space(call.data[i].displayName)
                    /\ Range(agent.aliases) =
                          {agent.name} \cup NamedAbilities(call.data[i])
                    /\ Range(agent.abilities) = NamedAbilities(call.data[i])
                /\ NoDuplicates(agent.aliases)
                /\ NoDuplicates(agent.abilities)
                /\ Range(agent.abilities) \subseteq Range(agent.aliases)

\* An entry without uuid and Reyna with a repeated and an empty ability name:
\* Reyna alone is returned, with three aliases and two abilities.
C17_Witness ==
    /\ call.pc = "agents"
    /\ Len(call.data) = 2
    /\ call.data[1].uuid = ""
    /\ call.data[2].displayName = " Reyna "
    /\ Len(call.agents) = 1
    /\ call.agents[1].aliases = << "Dismiss", "Leer", "Reyna" >>
    /\ call.agents[1].abilities = << "Dismiss", "Leer" >>

\* ---------------------------------------------------------------------------
\* simple_html.py: the collector under a sequence of handler calls.  The
\* fields ids, capture_ids, closed, emitted and nested are history: an element
\* is named by the number of the call that opened it.
\* ---------------------------------------------------------------------------

\* A set of tags that holds every tag.
ALL_TAGS == {"a", "h1", "h2", "h3", "p", "li", "time", "title", "div", "meta"}

INTERESTING_TAGS == {"a", "h1", "h2", "h3", "p", "li", "time", "title"}

\* The tags and the text fed to the collector.
FedTags == {"li", "p", "div"}
FedData == {"x"}

MaxFeed == 5

\* The last position of tag in stack, 0 when it is not there.
LastIndexOf(stack, tag) ==
    LET at == {i \in 1..Len(stack) : stack[i] = tag}
    IN  IF at = {} THEN 0 ELSE CHOOSE i \in at : \A j \in at : j <= i

\* del seq[i]
RemoveAt(seq, i) == SubSeq(seq, 1, i - 1) \o SubSeq(seq, i + 1, Len(seq))

\* _Collector.__init__
NewCollector ==
    [pc |-> "feed", stack |-> << >>, capture_stack |-> << >>, events |-> << >>,
     metas |-> << >>, calls |-> 0, ids |-> << >>, capture_ids |-> << >>,
     closed |-> {}, emitted |-> << >>, nested |-> TRUE]

InitTokenizer ==
    /\ store = EmptyStore
    /\ ld = IdleLd
    /\ runs = 0
    /\ rt = IdleRt
    /\ ftIndex = FALSE
    /\ parser = IdleParser
    /\ call = NewCollector

\* handle_starttag(tag, attrs)
StartTag(tag, attrs) ==
    /\ call.pc = "feed"
    /\ call.calls < MaxFeed
    /\ LET captures == tag \in INTERESTING_TAGS
       IN  call' = [call EXCEPT
                !.calls = @ + 1,
                !.stack = Append(@, tag),
                !.ids = Append(@, call.calls + 1),
                !.metas = IF tag = "meta" THEN Append(@, attrs) ELSE @,
                !.capture_stack =
                    IF captures
                    THEN Append(@, [tag |-> tag, attrs |-> attrs,
                                    parents |-> call.stack, text_parts |-> ""])
                    ELSE @,
                !.capture_ids = IF captures THEN Append(@, call.calls + 1) ELSE @]
    /\ UNCHANGED <<store, ld, runs, rt, ftIndex, parser>>

\* handle_endtag(tag)
EndTag(tag) ==
    /\ call.pc = "feed"
    /\ call.calls < MaxFeed
    /\ LET n == Len(call.capture_stack)
           emits == n > 0 /\ call.capture_stack[n].tag = tag
           capture == call.capture_stack[n]
           index == LastIndexOf(call.stack, tag)
       IN  call' = [call EXCEPT
                !.calls = @ + 1,
                !.capture_stack = IF emits THEN SubSeq(@, 1, n - 1) ELSE @,
                !.capture_ids = IF emits THEN SubSeq(@, 1, n - 1) ELSE @,
                !.events =
                    IF emits
                    THEN Append(@, [tag |-> capture.tag, attrs |-> capture.attrs,
                                    text |-> normalize_space(capture.text_parts),
                                    parents |-> capture.parents])
                    ELSE @,
                !.emitted =
                    IF emits
                    THEN Append(@, [id |-> call.capture_ids[n], at |-> call.calls + 1])
                    ELSE @,
                !.stack = IF index > 0 THEN RemoveAt(@, index) ELSE @,
                !.ids = IF index > 0 THEN RemoveAt(@, index) ELSE @,
                !.closed =
                    IF index > 0
                    THEN @ \cup {[id |-> call.ids[index], tag |-> tag,
                                  at |-> call.calls + 1]}
                    ELSE @,
                !.nested = @ /\ index > 0 /\ index = Len(call.stack)]
    /\ UNCHANGED <<store, ld, runs, rt, ftIndex, parser>>

\* handle_data(data)
Data(data) ==
    /\ call.pc = "feed"
    /\ call.calls < MaxFeed
    /\ call' = [call EXCEPT
            !.calls = @ + 1,
            !.capture_stack =
                IF data = "" THEN @
                ELSE [i \in DOMAIN @ |->
                        [@[i] EXCEPT !.text_parts = @ \o " " \o data \o " "]]]
    /\ UNCHANGED <<store, ld, runs, rt, ftIndex, parser>>

NextTokenizer ==
    \/ \E tag \in FedTags : StartTag(tag, NoAttrs)
    \/ \E tag \in FedTags : EndTag(tag)
    \/ \E data \in FedData : Data(data)

SpecTokenizer == InitTokenizer /\ [][NextTokenizer]_vars

\* The interesting set as the claim gives it.
InterestingSet == {"a", "h1", "h2", "h3", "p", "li", "time", "title"}

\* The events emitted for element id.
EmittedFor(id) == {e \in 1..Len(call.emitted) : call.emitted[e].id = id}

\* Exactly one event for each closed element of an interesting tag, emitted by
\* the call that closes it, and no event for any other element.
OneEventPerClosedElement ==
    /\ \A c \in call.closed :
        c.tag \in InterestingSet =>
            /\ Cardinality(EmittedFor(c.id)) = 1
            /\ \A e \in EmittedFor(c.id) : call.emitted[e].at = c.at
    /\ \A e \in 1..Len(call.emitted) :
        \E c \in call.closed : c.id = call.emitted[e].id /\ c.tag \in InterestingSet

\* C18 as it is stated, for any sequence of calls, mis-nested ones included.
C18_OneEventPerClosedElementAlways ==
    call.pc = "feed" => OneEventPerClosedElement

\* C18: while every end tag closes the innermost open element, there is
\* exactly one event for each closed element of an interesting tag, emitted by
\* the call that closes it, and none for any other element; for any sequence
\* of calls no element has two events, every event is the event of an element
\* of an interesting tag and carries its tag, and an event is emitted only by
\* an end tag.
C18_OneEventPerClosedElementWhenNested ==
    call.pc = "feed" =>
        /\ call.nested => OneEventPerClosedElement
        /\ Len(call.emitted) = Len(call.events)
        /\ \A e, f \in 1..Len(call.emitted) :
            call.emitted[e].id = call.emitted[f].id => e = f
        /\ \A e \in 1..Len(call.events) : call.events[e].tag \in InterestingSet

\* <li><p>x</p></li>: the event of p, then the event of li, each with the text.
C18_Witness ==
    /\ call.pc = "feed"
    /\ call.nested
    /\ call.calls = 5
    /\ Len(call.events) = 2
    /\ call.events[1].tag = "p" /\ call.events[1].text = "x"
    /\ call.events[1].parents = << "li" >>
    /\ call.events[2].tag = "li" /\ call.events[2].text = "x"
    /\ Cardinality(call.closed) = 2

\* The (section order, change order) pairs of the paths to change c.
OrdersOf(g, c) ==
    {<< g.sections[e[1]].order, g.changes[c].order >> : e \in {h \in g.hasChange : h[2] = c}}

\* The uuids resolution matched.
MatchedUuids == {rt.matched[i].uuid : i \in 1..Len(rt.matched)}

\* C19: retrieve takes the entity-scoped path exactly when resolution matched
\* an agent, and then runs neither the full-text nor the fallback query; the
\* changes it returns each mention a matched agent, have the score 10.0 and the
\* names of all the agents the change mentions, stand in (section order, change
\* order) ascending, and are at most k.
C19_EntityScopedPath ==
    /\ rt.pc = "by_agents" => Len(rt.matched) > 0
    /\ rt.pc \in {"fulltext", "fallback"} => Len(rt.matched) = 0
    /\ rt.path = "agents" <=> (rt.pc \in {"exit", "returned"} /\ rt.error = "none"
                                 /\ Len(rt.matched) > 0)
    /\ rt.path = "agents" => rt.caught = "none"
    /\ (rt.pc = "returned" /\ Len(rt.matched) > 0) =>
        /\ Len(rt.changes) <= rt.k
        /\ \A i \in 1..Len(rt.changes) :
            LET c == rt.changes[i].change_id
            IN  /\ c \in DOMAIN store.changes
                /\ \E u \in MatchedUuids : << c, u >> \in store.mentions
                /\ rt.changes[i].score = "10.0"
                /\ rt.changes[i].agents =
                      {store.agents[u].name : u \in {x \in DOMAIN store.agents :
                                                       << c, x >> \in store.mentions}}
        /\ \A i, j \in 1..Len(rt.changes) :
            i < j => \E a \in OrdersOf(store, rt.changes[i].change_id),
                        b \in OrdersOf(store, rt.changes[j].change_id) :
                        ~PairBefore(b, a)

\* The query names Harbor alone; two changes mention Harbor, one of them Reyna
\* too: both are returned, the one of the lower change order first, the other
\* with both names.
C19_Witness ==
    /\ rt.pc = "returned"
    /\ rt.query = "Harbor"
    /\ rt.path = "agents"
    /\ Len(rt.matched) = 1
    /\ rt.k = 2
    /\ Len(rt.changes) = 2
    /\ rt.changes[1].agents = {"Harbor", "Reyna"}
    /\ rt.changes[2].agents = {"Harbor"}
    /\ rt.changes[1].change_id # rt.changes[2].change_id

\* ---------------------------------------------------------------------------
\* The patches a load_to_neo4j is not about.
\* ---------------------------------------------------------------------------

\* What the store holds of patch Q: its subgraph along the relationships, and
\* the section and change nodes whose ids begin with Q's id.
AllOfPatch(g, Q) ==
    [subgraph |-> PatchSubgraph(g, Q),
     sections |-> {<< n, g.sections[n] >> :
                     n \in {x \in DOMAIN g.sections : StartsWith(x, Q \o "-s")}},
     changes |-> {<< n, g.changes[n] >> :
                    n \in {x \in DOMAIN g.changes : StartsWith(x, Q \o "-s")}}]

\* C20: at every statement of a load_to_neo4j without wipe and after it,
\* returned or raised, the store holds of every patch other than the one
\* loaded what it held when the call began: the Patch node, the Section and
\* Change nodes with their properties, and the HAS_SECTION, HAS_CHANGE and
\* MENTIONS_AGENT relationships.
C20_OtherPatchesUntouched ==
    (ld.mode = "load" /\ ~ld.wipe) =>
        \A Q \in PatchIds \ {ld.doc.patch.id} :
            AllOfPatch(store, Q) = AllOfPatch(ld.store0, Q)

\* A load of one patch failed partway after it changed the store, which held
\* another patch with sections, changes and mentions.
C20_Witness ==
    /\ ld.mode = "load" /\ ~ld.wipe /\ ld.pc = "raised"
    /\ store # ld.store0
    /\ SectionsOf(store, ld.doc.patch.id) # {}
    /\ \E Q \in PatchIds \ {ld.doc.patch.id} :
        /\ ChangesOf(ld.store0, Q) # {}
        /\ PatchSubgraph(ld.store0, Q).mentions # {}

====
